---------------------------- MODULE Spec2Model ----------------------------
(***************************************************************************)
(* Verification development for the plan-and-envelope verification core of *)
(* g3 (crates/g3-core/src/tools/{envelope,invariants,datalog}.rs), the     *)
(* plan mode of the interactive loop (crates/g3-cli/src/interactive.rs),   *)
(* the SDLC pipeline state (crates/studio/src/sdlc.rs) and the load_toolset*)
(* tool (crates/g3-core/src/toolsets.rs, tools/toolsets.rs).               *)
(*                                                                         *)
(* Five specifications share the variables: Spec (the envelope tool and    *)
(* the token), SpecRules (compile, extract, execute and the direct         *)
(* evaluator on one input), SpecPlan (the Plan and plan mode),             *)
(* SpecPipeline (the pipeline state) and SpecToolsets (load_toolset).      *)
(* Each leaves the variables of the others at their idle values.           *)
(*                                                                         *)
(* Conventions                                                             *)
(*  - A Rust String is a sequence of atoms.  The characters the code looks *)
(*    at one by one  . [ ] * , space ^ ( and the decimal digits  are atoms *)
(*    of their own; every other atom ("feature", "handle_tsv", ...) stands *)
(*    for a run of ordinary characters that the code only copies and       *)
(*    compares.                                                            *)
(*  - Option<T> is a sequence of length 0 (None) or 1 (Some).              *)
(*  - A serde_yaml::Value is a record [t, v] with t the variant tag.       *)
(*  - File-system calls are assumed to succeed; a file is None (absent) or *)
(*    Some(content).                                                       *)
(***************************************************************************)
EXTENDS Integers, Sequences, FiniteSets, TLC

VARIABLES
    envFile,    \* <session_logs>/envelope.yaml : Option<YAML document>
    rsFile,     \* <working_dir>/analysis/rulespec.yaml : Option<YAML document>
    keyFile,    \* ~/.g3/verification.key : Option<bytes>
    dlFile,     \* <session_logs>/rulespec.compiled.dl was written
    evalFile,   \* <session_logs>/datalog_evaluation.txt was written
    edits,      \* number of third-party file edits so far
    lastOp,     \* the operation that made the last step
    lastInput,  \* the arguments of the last write_envelope call
    lastCall,   \* the files the last write_envelope call wrote
    lastWrite,  \* the last write_envelope call that wrote envelope.yaml, step by step
    envWriter,  \* who wrote envelope.yaml last
    ret,        \* the string returned by the last write_envelope call
    vtResult,   \* the Result<bool> returned by the last verify_token call
    stampSnap,  \* Option<the three files as they were right after the last stamp>
    \* --- the rule pipeline applied to one (rulespec, envelope) pair ---
    rulespecIn, \* Option<the Rulespec given to compile_rulespec>
    envelopeIn, \* Option<the ActionEnvelope given to extract_facts>
    compiledOut,\* Option<the Result of compile_rulespec>
    factsOut,   \* Option<the HashSet<Fact> extract_facts returned>
    runs,       \* the DatalogExecutionResults of the execute_rules calls so far
    rulesPc,    \* the position in the rule pipeline
    directOut,  \* Option<the RulespecEvaluation evaluate_rulespec returned>
    \* --- the session's Plan and the interactive loop's plan mode ---
    plan,       \* Option<Plan>: revision, approved_revision, items
    in_plan_mode,   \* the interactive loop's in_plan_mode flag
    agent_plan_mode,    \* the flag last given to agent.set_plan_mode
    planOp,     \* the last plan operation, its argument and whether it was accepted
    approvedItems,  \* the ids of the items present at the approved revision
    itemTrail,  \* per item id, the states it went through in the accepted plans
    itemStay,   \* the same, since the item last entered the plan
    \* --- the SDLC pipeline (studio) ---
    pipeline,   \* Option<PipelineState>
    pipeOp,     \* the last PipelineState method called and what it returned
    retryOf,    \* Option<the attempts the current stage had when retry_stage reset it>
    cleanPairs, \* Option<the number of mark_running/mark_complete pairs, nothing else called>
    \* --- the load_toolset tool ---
    loaded_toolsets,    \* ctx.loaded_toolsets: the set of names marked as loaded
    toolsetCall,    \* the last load_toolset call: its argument and what it returned
    loadCount   \* per registry toolset, how many calls returned its definitions

toolVars == <<envFile, rsFile, keyFile, dlFile, evalFile, edits, lastOp, lastInput,
              lastCall, lastWrite, envWriter, ret, vtResult, stampSnap>>
rulesVars == <<rulespecIn, envelopeIn, compiledOut, factsOut, runs, rulesPc, directOut>>
planVars == <<plan, in_plan_mode, agent_plan_mode, planOp, approvedItems, itemTrail, itemStay>>
pipelineVars == <<pipeline, pipeOp, retryOf, cleanPairs>>
toolsetVars == <<loaded_toolsets, toolsetCall, loadCount>>
vars == <<toolVars, rulesVars, planVars, pipelineVars, toolsetVars>>

(***************************************************************************)
(* Bounds of the model                                                     *)
(***************************************************************************)
MaxEdits == 1
MaxByte == 2
MaxRuns == 2

-----------------------------------------------------------------------------
(***************************************************************************)
(* Option and string helpers                                               *)
(***************************************************************************)
None == <<>>
Some(x) == <<x>>
IsSome(o) == Len(o) = 1
Unwrap(o) == o[1]

\* load_toolset was not called.
NoToolsetCall == [arg |-> None, kind |-> "none", name |-> <<>>, tools |-> <<>>]
ToolsetsIdle ==
    /\ loaded_toolsets = {}
    /\ toolsetCall = NoToolsetCall
    /\ loadCount = <<>>
\* The rule pipeline is not in use.
RulesIdle ==
    /\ rulespecIn = None
    /\ envelopeIn = None
    /\ compiledOut = None
    /\ factsOut = None
    /\ runs = <<>>
    /\ rulesPc = "idle"
    /\ directOut = None
\* The item ids of the plans written.
ItemIds == {"I1", "I2"}
\* No item was in an accepted plan.
NoTrail == [id \in ItemIds |-> <<>>]
\* No plan operation was made.
NoPlanOp == [op |-> "idle", ok |-> TRUE, items |-> None, mode |-> FALSE]
PlanIdle ==
    /\ plan = None
    /\ in_plan_mode = FALSE
    /\ agent_plan_mode = FALSE
    /\ planOp = NoPlanOp
    /\ approvedItems = {}
    /\ itemTrail = NoTrail
    /\ itemStay = NoTrail
\* No pipeline exists.
PipeOp(op, ok, stage, hash, retried, found_running) ==
    [op |-> op, ok |-> ok, stage |-> stage, hash |-> hash, retried |-> retried,
     found_running |-> found_running]
NoPipeOp == PipeOp("idle", TRUE, 0, None, None, FALSE)
PipelineIdle ==
    /\ pipeline = None
    /\ pipeOp = NoPipeOp
    /\ retryOf = None
    /\ cleanPairs = None
\* What a step of the envelope tool, of the rule pipeline, of the plan and of
\* the SDLC pipeline leaves alone.
OutsideTool == <<rulesVars, planVars, pipelineVars, toolsetVars>>
OutsideRules == <<toolVars, planVars, pipelineVars, toolsetVars>>
OutsidePlan == <<toolVars, rulesVars, pipelineVars, toolsetVars>>
OutsidePipeline == <<toolVars, rulesVars, planVars, toolsetVars>>
OutsideToolsets == <<toolVars, rulesVars, planVars, pipelineVars>>

Digits == <<"0", "1", "2", "3", "4", "5", "6", "7", "8", "9">>
IsDigit(a) == \E i \in 1..10 : Digits[i] = a
DigitVal(a) == (CHOOSE i \in 1..10 : Digits[i] = a) - 1

\* The atoms that occur in map keys, in the byte order Rust's String Ord uses.
Alphabet == <<"caps", "extra", "facts", "feature", "file", "other", "subject">>
AtomRank(a) == IF \E i \in 1..Len(Alphabet) : Alphabet[i] = a
               THEN CHOOSE i \in 1..Len(Alphabet) : Alphabet[i] = a
               ELSE 0

RECURSIVE StrLess(_, _)
StrLess(a, b) ==
    IF b = <<>> THEN FALSE
    ELSE IF a = <<>> THEN TRUE
    ELSE IF AtomRank(Head(a)) # AtomRank(Head(b))
         THEN AtomRank(Head(a)) < AtomRank(Head(b))
         ELSE StrLess(Tail(a), Tail(b))

RECURSIVE TrimStart(_)
TrimStart(s) == IF s # <<>> /\ Head(s) = " " THEN TrimStart(Tail(s)) ELSE s

RECURSIVE TrimEnd(_)
TrimEnd(s) == IF s # <<>> /\ s[Len(s)] = " "
              THEN TrimEnd(SubSeq(s, 1, Len(s) - 1)) ELSE s

Trim(s) == TrimEnd(TrimStart(s))

\* str::parse::<usize>() on the model's strings: Some(n) iff all atoms are digits.
RECURSIVE DigitsValue(_, _)
DigitsValue(s, acc) ==
    IF s = <<>> THEN acc ELSE DigitsValue(Tail(s), 10 * acc + DigitVal(Head(s)))

ParseUsize(s) ==
    IF s # <<>> /\ \A i \in 1..Len(s) : IsDigit(s[i])
    THEN Some(DigitsValue(s, 0)) ELSE None

\* u64/usize Display for the numbers of the model (below 100).
NumToString(n) ==
    IF n < 10 THEN <<Digits[n + 1]>>
    ELSE <<Digits[(n \div 10) + 1], Digits[(n % 10) + 1]>>

-----------------------------------------------------------------------------
(***************************************************************************)
(* serde_yaml::Value                                                       *)
(***************************************************************************)
VNull == [t |-> "null", v |-> <<>>]
VBool(b) == [t |-> "bool", v |-> b]
VNum(n) == [t |-> "num", v |-> n]
VStr(s) == [t |-> "str", v |-> s]
VSeq(items) == [t |-> "seq", v |-> items]
\* A Mapping is its entries <<key, value>> in insertion order.
VMap(entries) == [t |-> "map", v |-> entries]

MapGet(entries, key) ==
    IF \E i \in 1..Len(entries) : entries[i][1] = key
    THEN Some(entries[CHOOSE i \in 1..Len(entries) : entries[i][1] = key][2])
    ELSE None

-----------------------------------------------------------------------------
(***************************************************************************)
(* Selector (invariants.rs)                                                *)
(***************************************************************************)
Field(name) == [k |-> "field", name |-> name, idx |-> 0]
Index(i) == [k |-> "index", name |-> <<>>, idx |-> i]
Wildcard == [k |-> "wildcard", name |-> <<>>, idx |-> 0]

ParseOk(segments) == [ok |-> TRUE, segments |-> segments, err |-> ""]
ParseErr(msg) == [ok |-> FALSE, segments |-> <<>>, err |-> msg]

PushField(segments, current) ==
    IF current # <<>> THEN Append(segments, Field(current)) ELSE segments

\* The position of the first "]" at or after i, or Len(s) + 1 when there is none.
RECURSIVE FindClose(_, _)
FindClose(s, i) ==
    IF i > Len(s) THEN i ELSE IF s[i] = "]" THEN i ELSE FindClose(s, i + 1)

RECURSIVE ParseLoop(_, _, _, _)
ParseLoop(s, i, segments, current) ==
    IF i > Len(s)
    THEN LET segs == PushField(segments, current)
         IN  IF segs = <<>> THEN ParseErr("Selector produced no segments")
             ELSE ParseOk(segs)
    ELSE IF s[i] = "."
         THEN ParseLoop(s, i + 1, PushField(segments, current), <<>>)
    ELSE IF s[i] = "["
         THEN LET close == FindClose(s, i + 1)
                  index_str == SubSeq(s, i + 1, close - 1)
                  segs == PushField(segments, current)
              IN  IF index_str = <<"*">>
                  THEN ParseLoop(s, close + 1, Append(segs, Wildcard), <<>>)
                  ELSE IF IsSome(ParseUsize(index_str))
                       THEN ParseLoop(s, close + 1,
                                Append(segs, Index(Unwrap(ParseUsize(index_str)))),
                                <<>>)
                       ELSE ParseErr("Invalid array index")
    ELSE IF s[i] = "]"
         THEN ParseErr("Unexpected ']' in selector")
    ELSE ParseLoop(s, i + 1, segments, Append(current, s[i]))

SelectorParse(str) ==
    LET s == Trim(str)
    IN  IF s = <<>> THEN ParseErr("Selector cannot be empty")
        ELSE ParseLoop(s, 1, <<>>, <<>>)

RECURSIVE SelectRecursive(_, _, _)
RECURSIVE SelectWildcard(_, _, _, _)
SelectWildcard(segments, seq, j, segment_idx) ==
    IF j > Len(seq) THEN <<>>
    ELSE SelectRecursive(segments, seq[j], segment_idx + 1)
         \o SelectWildcard(segments, seq, j + 1, segment_idx)

SelectRecursive(segments, value, segment_idx) ==
    IF segment_idx > Len(segments) THEN <<value>>
    ELSE LET seg == segments[segment_idx]
         IN  IF seg.k = "field"
             THEN IF value.t = "map" /\ IsSome(MapGet(value.v, VStr(seg.name)))
                  THEN SelectRecursive(segments,
                           Unwrap(MapGet(value.v, VStr(seg.name))), segment_idx + 1)
                  ELSE <<>>
             ELSE IF seg.k = "index"
             THEN IF value.t = "seq" /\ seg.idx + 1 <= Len(value.v)
                  THEN SelectRecursive(segments, value.v[seg.idx + 1], segment_idx + 1)
                  ELSE <<>>
             ELSE IF value.t = "seq"
                  THEN SelectWildcard(segments, value.v, 1, segment_idx)
                  ELSE <<>>

Select(segments, value) == SelectRecursive(segments, value, 1)

-----------------------------------------------------------------------------
(***************************************************************************)
(* Rulespec (invariants.rs)                                                *)
(***************************************************************************)
Claim(name, selector) == [name |-> name, selector |-> selector]
WhenCondition(claim, rule, value) == [claim |-> claim, rule |-> rule, value |-> value]
Predicate(claim, rule, value, when) ==
    [claim |-> claim, rule |-> rule, value |-> value, source |-> "task_prompt",
     notes |-> None, when |-> when]
Rulespec(claims, predicates) == [claims |-> claims, predicates |-> predicates]

RuleNeedsValue(rule) == rule \notin {"exists", "not_exists"}

ClaimValidate(claim) ==
    /\ Trim(claim.name) # <<>>
    /\ Trim(claim.selector) # <<>>
    /\ SelectorParse(claim.selector).ok

PredicateValidate(p) ==
    /\ Trim(p.claim) # <<>>
    /\ RuleNeedsValue(p.rule) => IsSome(p.value)
    /\ IsSome(p.when) =>
          /\ Trim(Unwrap(p.when).claim) # <<>>
          /\ RuleNeedsValue(Unwrap(p.when).rule) => IsSome(Unwrap(p.when).value)

\* Rulespec::validate: TRUE iff it returns Ok(()).
RulespecValidate(rs) ==
    LET claim_names == {rs.claims[i].name : i \in 1..Len(rs.claims)}
    IN  /\ \A i \in 1..Len(rs.claims) :
              /\ ClaimValidate(rs.claims[i])
              /\ \A j \in 1..(i - 1) : rs.claims[j].name # rs.claims[i].name
        /\ \A i \in 1..Len(rs.predicates) :
              /\ PredicateValidate(rs.predicates[i])
              /\ rs.predicates[i].claim \in claim_names
              /\ IsSome(rs.predicates[i].when) =>
                     Unwrap(rs.predicates[i].when).claim \in claim_names

-----------------------------------------------------------------------------
(***************************************************************************)
(* Compilation: Rulespec -> CompiledRulespec (datalog.rs)                  *)
(***************************************************************************)
RECURSIVE JoinCommaSpace(_)
RECURSIVE yaml_value_to_string(_)
JoinCommaSpace(strs) ==
    IF strs = <<>> THEN <<>>
    ELSE IF Len(strs) = 1 THEN strs[1]
    ELSE strs[1] \o <<",", " ">> \o JoinCommaSpace(Tail(strs))

yaml_value_to_string(value) ==
    IF value.t = "null" THEN <<"null">>
    ELSE IF value.t = "bool" THEN (IF value.v THEN <<"true">> ELSE <<"false">>)
    ELSE IF value.t = "num" THEN NumToString(value.v)
    ELSE IF value.t = "str" THEN value.v
    ELSE IF value.t = "seq"
         THEN <<"[">>
              \o JoinCommaSpace([i \in 1..Len(value.v) |-> yaml_value_to_string(value.v[i])])
              \o <<"]">>
    ELSE <<"{object}">>

OptToString(opt) == IF IsSome(opt) THEN Some(yaml_value_to_string(Unwrap(opt))) ELSE None

\* The HashMap<String, String> built by the first loop: a later claim of the
\* same name replaces the earlier one.
RECURSIVE ClaimsMap(_, _)
ClaimsMap(claims, n) ==
    IF n = 0 THEN <<>>
    ELSE LET prev == ClaimsMap(claims, n - 1)
             c == claims[n]
         IN  [k \in (DOMAIN prev) \cup {c.name} |->
                 IF k = c.name THEN c.selector ELSE prev[k]]

CompiledWhenCondition(claims, w) ==
    [claim_name |-> w.claim,
     selector |-> IF w.claim \in DOMAIN claims THEN claims[w.claim] ELSE <<>>,
     rule |-> w.rule,
     expected_value |-> OptToString(w.value)]

CompiledPredicate(claims, idx, p) ==
    [id |-> idx,
     claim_name |-> p.claim,
     selector |-> claims[p.claim],
     rule |-> p.rule,
     expected_value |-> OptToString(p.value),
     source |-> p.source,
     notes |-> p.notes,
     when |-> IF IsSome(p.when)
              THEN Some(CompiledWhenCondition(claims, Unwrap(p.when)))
              ELSE None]

CompileOk(predicates, claims) ==
    [ok |-> TRUE, predicates |-> predicates, claims |-> claims, err |-> ""]
CompileErr(msg) ==
    [ok |-> FALSE, predicates |-> <<>>, claims |-> <<>>, err |-> msg]

compile_rulespec(rulespec) ==
    LET claims == ClaimsMap(rulespec.claims, Len(rulespec.claims))
    IN  IF \E i \in 1..Len(rulespec.claims) :
               ~SelectorParse(rulespec.claims[i].selector).ok
        THEN CompileErr("Invalid selector in claim")
        ELSE IF \E i \in 1..Len(rulespec.predicates) :
                    rulespec.predicates[i].claim \notin DOMAIN claims
        THEN CompileErr("Predicate references unknown claim")
        ELSE CompileOk([i \in 1..Len(rulespec.predicates) |->
                           CompiledPredicate(claims, i - 1, rulespec.predicates[i])],
                       claims)

CompiledIsEmpty(compiled) == compiled.predicates = <<>>

-----------------------------------------------------------------------------
(***************************************************************************)
(* ActionEnvelope and fact extraction (invariants.rs, datalog.rs)          *)
(***************************************************************************)
\* facts : HashMap<String, Value> is a function from keys to values.
ActionEnvelope(facts, verified) == [facts |-> facts, verified |-> verified]

\* The keys of a map in Rust's String order.
RECURSIVE SortedKeys(_)
SortedKeys(keys) ==
    IF keys = {} THEN <<>>
    ELSE LET least == CHOOSE k \in keys : \A o \in keys \ {k} : StrLess(k, o)
         IN  <<least>> \o SortedKeys(keys \ {least})

\* to_yaml_value: the facts wrapped in a root mapping.  A HashMap iterates in
\* an arbitrary order; no reader of the root mapping depends on it (lookup by
\* key only), so the sorted order stands for all of them.
to_yaml_value(envelope) ==
    LET keys == SortedKeys(DOMAIN envelope.facts)
    IN  VMap([i \in 1..Len(keys) |-> <<VStr(keys[i]), envelope.facts[keys[i]]>>])

Fact(claim_name, value) == [claim_name |-> claim_name, value |-> value]

RECURSIVE extract_values_recursive(_, _)
RECURSIVE ExtractItems(_, _, _)
RECURSIVE ExtractEntries(_, _, _)
ExtractItems(claim_name, seq, j) ==
    IF j > Len(seq) THEN {}
    ELSE extract_values_recursive(claim_name, seq[j])
         \cup ExtractItems(claim_name, seq, j + 1)

ExtractEntries(claim_name, entries, j) ==
    IF j > Len(entries) THEN {}
    ELSE extract_values_recursive(
             claim_name \o <<".">> \o yaml_value_to_string(entries[j][1]),
             entries[j][2])
         \cup ExtractEntries(claim_name, entries, j + 1)

\* extract_values_recursive with Null handled by the scalar arm.
extract_values_recursive_NullAsScalar(claim_name, value) ==
    IF value.t = "seq"
    THEN ExtractItems(claim_name, value.v, 1)
         \cup {Fact(claim_name \o <<".", "__length">>, NumToString(Len(value.v)))}
    ELSE IF value.t = "map"
    THEN {Fact(claim_name, <<"{object}">>)} \cup ExtractEntries(claim_name, value.v, 1)
    ELSE {Fact(claim_name, yaml_value_to_string(value))}

extract_values_recursive(claim_name, value) ==
    IF value.t = "seq"
    THEN ExtractItems(claim_name, value.v, 1)
         \cup {Fact(claim_name \o <<".", "__length">>, NumToString(Len(value.v)))}
    ELSE IF value.t = "map"
    THEN {Fact(claim_name, <<"{object}">>)} \cup ExtractEntries(claim_name, value.v, 1)
    ELSE IF value.t = "null"
    THEN {}
    ELSE {Fact(claim_name, yaml_value_to_string(value))}

\* The selection of extract_facts without the retry on the wrapped value.
ClaimValues_NoRetry(envelope, selector_str) ==
    LET selector == SelectorParse(selector_str)
    IN  IF ~selector.ok THEN <<>>
        ELSE Select(selector.segments, to_yaml_value(envelope))

ClaimValues(envelope, selector_str) ==
    LET envelope_value == to_yaml_value(envelope)
        wrapped_value == VMap(<<<<VStr(<<"facts">>), envelope_value>>>>)
        selector == SelectorParse(selector_str)
        values == Select(selector.segments, envelope_value)
    IN  IF ~selector.ok THEN <<>>
        ELSE IF values = <<>> THEN Select(selector.segments, wrapped_value)
        ELSE values

extract_facts(envelope, compiled) ==
    UNION { ExtractItems(claim_name,
                         ClaimValues(envelope, compiled.claims[claim_name]), 1) :
            claim_name \in DOMAIN compiled.claims }

-----------------------------------------------------------------------------
(***************************************************************************)
(* Datalog execution (datalog.rs)                                          *)
(***************************************************************************)
\* fact_lookup.get(claim_name): the empty set stands for None (an entry of
\* the lookup always holds at least one value).
FactLookup(facts, claim_name) ==
    {f.value : f \in {g \in facts : g.claim_name = claim_name}}

IsPrefix(p, s) == Len(p) <= Len(s) /\ SubSeq(s, 1, Len(p)) = p
StrContains(s, p) == \E i \in 0..(Len(s) - Len(p)) : SubSeq(s, i + 1, i + Len(p)) = p

\* str::parse::<f64>() on the model's strings (unsigned decimal integers).
ParseF64(s) == ParseUsize(s)

\* regex::Regex over the patterns of the model: a literal, optionally anchored
\* with a leading ^ ; an unbalanced ( does not compile.
RegexNew(pattern) ==
    [ok |-> \A i \in 1..Len(pattern) : pattern[i] # "(",
     anchored |-> pattern # <<>> /\ Head(pattern) = "^",
     literal |-> IF pattern # <<>> /\ Head(pattern) = "^" THEN Tail(pattern) ELSE pattern]
RegexIsMatch(regex, v) ==
    IF regex.anchored THEN IsPrefix(regex.literal, v) ELSE StrContains(v, regex.literal)

RECURSIVE TrimBracketsStart(_)
TrimBracketsStart(s) ==
    IF s # <<>> /\ Head(s) \in {"[", "]"} THEN TrimBracketsStart(Tail(s)) ELSE s
RECURSIVE TrimBracketsEnd(_)
TrimBracketsEnd(s) ==
    IF s # <<>> /\ s[Len(s)] \in {"[", "]"}
    THEN TrimBracketsEnd(SubSeq(s, 1, Len(s) - 1)) ELSE s
\* v.trim_matches(|c| c == '[' || c == ']')
TrimBrackets(s) == TrimBracketsEnd(TrimBracketsStart(s))

\* str::split(", ") collected into a Vec
RECURSIVE SplitCommaSpace(_, _)
SplitCommaSpace(s, current) ==
    IF s = <<>> THEN <<current>>
    ELSE IF Len(s) >= 2 /\ s[1] = "," /\ s[2] = " "
    THEN <<current>> \o SplitCommaSpace(SubSeq(s, 3, Len(s)), <<>>)
    ELSE SplitCommaSpace(Tail(s), Append(current, Head(s)))

\* The elements any_of / none_of test membership in.
ExpectedSet(expected_value) ==
    IF IsSome(expected_value)
    THEN LET parts == SplitCommaSpace(TrimBrackets(Unwrap(expected_value)), <<>>)
         IN  {parts[i] : i \in 1..Len(parts)}
    ELSE {}

PredResult(passed, reason) == [passed |-> passed, reason |-> reason]

UnwrapOrEmpty(opt) == IF IsSome(opt) THEN Unwrap(opt) ELSE <<>>
ParseOr(opt, default) ==
    IF IsSome(opt) /\ IsSome(ParseUsize(Unwrap(opt)))
    THEN Unwrap(ParseUsize(Unwrap(opt))) ELSE default

\* The values `.iter().next()` may yield on a HashSet: any element (the
\* iteration order of a HashSet is arbitrary); None on the empty set.
FirstOf(set) == IF set = {} THEN {None} ELSE {Some(v) : v \in set}

\* The length read from the `<claim>.__length` facts, for each possible
\* "first" element.
LengthsRead(facts, claim_name) ==
    {IF IsSome(first) /\ IsSome(ParseUsize(Unwrap(first)))
     THEN Unwrap(ParseUsize(Unwrap(first))) ELSE 0 :
        first \in FirstOf(FactLookup(facts, claim_name \o <<".", "__length">>))}

NoValues == "Claim has no values"

\* evaluate_predicate_datalog: the set of results the call may return.
evaluate_predicate_datalog(pred, facts) ==
    LET claim_values == FactLookup(facts, pred.claim_name)
        expected == UnwrapOrEmpty(pred.expected_value)
    IN
    IF pred.rule = "exists"
    THEN IF claim_values # {} THEN {PredResult(TRUE, "Value exists")}
         ELSE {PredResult(FALSE, "Value does not exist")}
    ELSE IF pred.rule = "not_exists"
    THEN IF claim_values = {} THEN {PredResult(TRUE, "Value does not exist as expected")}
         ELSE {PredResult(FALSE, "Value exists but should not")}
    ELSE IF pred.rule = "contains"
    THEN IF claim_values = {} THEN {PredResult(FALSE, NoValues)}
         ELSE IF expected \in claim_values THEN {PredResult(TRUE, "Contains")}
         ELSE {PredResult(FALSE, "Does not contain")}
    ELSE IF pred.rule = "equals"
    THEN IF claim_values = {} THEN {PredResult(FALSE, NoValues)}
         ELSE IF Cardinality(claim_values) = 1 /\ expected \in claim_values
         THEN {PredResult(TRUE, "Equals")}
         ELSE IF Cardinality(claim_values) > 1
         THEN {PredResult(FALSE, "Multiple values found, expected single value")}
         ELSE {PredResult(FALSE, "Expected, got")}
    ELSE IF pred.rule = "min_length"
    THEN {IF length >= ParseOr(pred.expected_value, 0)
          THEN PredResult(TRUE, "Length >=")
          ELSE PredResult(FALSE, "Length < (minimum)") :
             length \in LengthsRead(facts, pred.claim_name)}
    ELSE IF pred.rule = "max_length"
    THEN {IF IsSome(pred.expected_value) /\ IsSome(ParseUsize(Unwrap(pred.expected_value)))
             => length <= Unwrap(ParseUsize(Unwrap(pred.expected_value)))
          THEN PredResult(TRUE, "Length <=")
          ELSE PredResult(FALSE, "Length > (maximum)") :
             length \in LengthsRead(facts, pred.claim_name)}
    ELSE IF pred.rule \in {"greater_than", "less_than"}
    THEN IF claim_values = {} THEN {PredResult(FALSE, NoValues)}
         ELSE {IF ~IsSome(ParseF64(Unwrap(first)))
               THEN PredResult(FALSE, "Value is not a number")
               ELSE LET actual == Unwrap(ParseF64(Unwrap(first)))
                        bound == ParseOr(pred.expected_value, 0)
                    IN  IF pred.rule = "greater_than"
                        THEN IF actual > bound THEN PredResult(TRUE, ">")
                             ELSE PredResult(FALSE, "is not >")
                        ELSE IF actual < bound THEN PredResult(TRUE, "<")
                             ELSE PredResult(FALSE, "is not <") :
                  first \in FirstOf(claim_values)}
    ELSE IF pred.rule = "matches"
    THEN IF ~RegexNew(expected).ok THEN {PredResult(FALSE, "Invalid regex")}
         ELSE IF claim_values = {} THEN {PredResult(FALSE, NoValues)}
         ELSE IF \E v \in claim_values : RegexIsMatch(RegexNew(expected), v)
         THEN {PredResult(TRUE, "Matches pattern")}
         ELSE {PredResult(FALSE, "No value matches pattern")}
    ELSE IF pred.rule = "not_contains"
    THEN IF claim_values = {}
         THEN {PredResult(TRUE, "Claim has no values (not_contains passes vacuously)")}
         ELSE IF expected \in claim_values
         THEN {PredResult(FALSE, "Contains but should not")}
         ELSE {PredResult(TRUE, "Does not contain")}
    ELSE IF pred.rule = "any_of"
    THEN IF claim_values = {} THEN {PredResult(FALSE, NoValues)}
         ELSE IF \E v \in claim_values : v \in ExpectedSet(pred.expected_value)
         THEN {PredResult(TRUE, "Value is in allowed set")}
         ELSE {PredResult(FALSE, "Value is not in allowed set")}
    ELSE \* none_of
         IF claim_values = {}
         THEN {PredResult(TRUE, "Claim has no values (none_of passes vacuously)")}
         ELSE IF \E v \in claim_values : v \in ExpectedSet(pred.expected_value)
         THEN {PredResult(FALSE, "Value is in forbidden set")}
         ELSE {PredResult(TRUE, "Value is not in forbidden set")}

SentinelId == 0 - 1

\* The synthetic predicate execute_rules builds to evaluate a when condition.
WhenPred(pred) ==
    LET when == Unwrap(pred.when)
    IN  [id |-> SentinelId, claim_name |-> when.claim_name, selector |-> when.selector,
         rule |-> when.rule, expected_value |-> when.expected_value,
         source |-> pred.source, notes |-> None, when |-> None]

\* The predicate loop without the `when` branch.
PredicateOutcomes_IgnoresWhen(pred, facts) == evaluate_predicate_datalog(pred, facts)

\* The results one iteration of the predicate loop may record.
PredicateOutcomes(pred, facts) ==
    IF IsSome(pred.when)
    THEN UNION { IF ~w.passed
                 THEN {PredResult(TRUE, "Skipped (when condition not met)")}
                 ELSE evaluate_predicate_datalog(pred, facts) :
                 w \in evaluate_predicate_datalog(WhenPred(pred), facts) }
    ELSE evaluate_predicate_datalog(pred, facts)

RECURSIVE ResultSeqs(_, _, _)
ResultSeqs(predicates, facts, n) ==
    IF n = 0 THEN {<<>>}
    ELSE {Append(rs, r) : rs \in ResultSeqs(predicates, facts, n - 1),
                          r \in PredicateOutcomes(predicates[n], facts)}

DatalogExecutionResult(results, facts) ==
    [predicate_results |-> results,
     fact_count |-> Cardinality(facts),
     passed_count |-> Cardinality({i \in 1..Len(results) : results[i].passed}),
     failed_count |-> Cardinality({i \in 1..Len(results) : ~results[i].passed})]

\* execute_rules: the set of results the call may return.
execute_rules(compiled, facts) ==
    {DatalogExecutionResult(results, facts) :
        results \in ResultSeqs(compiled.predicates, facts, Len(compiled.predicates))}

-----------------------------------------------------------------------------
(***************************************************************************)
(* YAML documents on disk and in the tool argument                         *)
(*                                                                         *)
(* A document is what a YAML parser sees of a text: whether it is           *)
(* well-formed, and its top-level keys `facts`, `verified` and the rest.   *)
(***************************************************************************)
Doc(facts, verified, unknown) ==
    [wf |-> TRUE, facts |-> facts, verified |-> verified, unknown |-> unknown]
MalformedDoc == [wf |-> FALSE, facts |-> None, verified |-> None, unknown |-> None]

\* serde_yaml::from_str::<ActionEnvelope>: `facts` defaults to the empty map,
\* `verified` to None, unknown keys are ignored.
EnvelopeFromStr(doc) ==
    IF ~doc.wf THEN [ok |-> FALSE, envelope |-> ActionEnvelope(<<>>, None)]
    ELSE [ok |-> TRUE,
          envelope |-> ActionEnvelope(IF IsSome(doc.facts) THEN Unwrap(doc.facts) ELSE <<>>,
                                      doc.verified)]

\* format_envelope_yaml: the header comments and serde_yaml::to_string(envelope);
\* `verified` is skipped when None.
format_envelope_yaml(envelope) == Doc(Some(envelope.facts), envelope.verified, None)

\* read_envelope: Ok(None) when the file is absent, Err when it does not parse.
read_envelope(file) ==
    IF ~IsSome(file) THEN [ok |-> TRUE, envelope |-> None]
    ELSE IF ~EnvelopeFromStr(Unwrap(file)).ok THEN [ok |-> FALSE, envelope |-> None]
    ELSE [ok |-> TRUE, envelope |-> Some(EnvelopeFromStr(Unwrap(file)).envelope)]

\* The rulespec file: Some([wf, rulespec]).
RulespecDoc(rulespec) == [wf |-> TRUE, rulespec |-> rulespec]
MalformedRulespecDoc == [wf |-> FALSE, rulespec |-> Rulespec(<<>>, <<>>)]

\* read_rulespec: Ok(None) when the file is absent, Err when it does not parse.
read_rulespec(file) ==
    IF ~IsSome(file) THEN [ok |-> TRUE, rulespec |-> None]
    ELSE IF ~Unwrap(file).wf THEN [ok |-> FALSE, rulespec |-> None]
    ELSE [ok |-> TRUE, rulespec |-> Some(Unwrap(file).rulespec)]

-----------------------------------------------------------------------------
(***************************************************************************)
(* Verification key and token (envelope.rs)                                *)
(***************************************************************************)
VERIFICATION_KEY_LEN == 32
\* The number of leading key bytes that make up the SipHash key (k0, k1).
SIPHASH_KEY_LEN == 16
TOKEN_PREFIX == "g3v1:"

Byte == 0..MaxByte
ZeroWord == [i \in 1..8 |-> 0]

\* read_verification_key: None when the file is absent or not 32 bytes long.
read_verification_key(file) ==
    IF IsSome(file) /\ Len(Unwrap(file)) = VERIFICATION_KEY_LEN THEN file ELSE None

\* Variant: a generated key is used but never written to the key file.
get_or_create_verification_key_NotPersisted(file, fresh) ==
    IF IsSome(file) /\ Len(Unwrap(file)) = VERIFICATION_KEY_LEN
    THEN [key |-> Unwrap(file), file |-> file, created |-> FALSE]
    ELSE [key |-> fresh, file |-> file, created |-> FALSE]

\* Variant: every stamp generates a new key, whatever the key file holds.
get_or_create_verification_key_Rotates(file, fresh) ==
    [key |-> fresh, file |-> Some(fresh), created |-> TRUE]

\* get_or_create_verification_key; `fresh` is what the random generator yields.
get_or_create_verification_key(file, fresh) ==
    IF IsSome(file) /\ Len(Unwrap(file)) = VERIFICATION_KEY_LEN
    THEN [key |-> Unwrap(file), file |-> file, created |-> FALSE]
    ELSE [key |-> fresh, file |-> Some(fresh), created |-> TRUE]

\* Variant: only the fact keys are serialized, not their values.
canonical_facts_yaml_KeysOnly(envelope) == SortedKeys(DOMAIN envelope.facts)

\* Variant: the `verified` field is serialized after the facts.
canonical_facts_yaml_WithVerified(envelope) ==
    LET keys == SortedKeys(DOMAIN envelope.facts)
    IN  [i \in 1..Len(keys) |-> <<keys[i], envelope.facts[keys[i]]>>]
        \o <<<<<<"verified">>, envelope.verified>>>>

\* The facts as a mapping with its keys sorted, serialized.
canonical_facts_yaml(envelope) ==
    LET keys == SortedKeys(DOMAIN envelope.facts)
    IN  [i \in 1..Len(keys) |-> <<keys[i], envelope.facts[keys[i]]>>]

\* serde_yaml::to_string of a Predicate / WhenCondition / Rulespec: the fields
\* in declaration order, the skip_serializing_if ones left out.
WhenYaml(w) ==
    <<<<"claim", w.claim>>, <<"rule", w.rule>>>>
    \o (IF IsSome(w.value) THEN <<<<"value", Unwrap(w.value)>>>> ELSE <<>>)
PredicateYaml(p) ==
    <<<<"claim", p.claim>>, <<"rule", p.rule>>>>
    \o (IF IsSome(p.value) THEN <<<<"value", Unwrap(p.value)>>>> ELSE <<>>)
    \o <<<<"source", p.source>>>>
    \o (IF IsSome(p.notes) THEN <<<<"notes", Unwrap(p.notes)>>>> ELSE <<>>)
    \o (IF IsSome(p.when) THEN <<<<"when", WhenYaml(Unwrap(p.when))>>>> ELSE <<>>)
canonical_rulespec_yaml(rulespec) ==
    (IF rulespec.claims # <<>>
     THEN <<<<"claims", [i \in 1..Len(rulespec.claims) |->
                           <<<<"name", rulespec.claims[i].name>>,
                             <<"selector", rulespec.claims[i].selector>>>>]>>>>
     ELSE <<>>)
    \o (IF rulespec.predicates # <<>>
        THEN <<<<"predicates", [i \in 1..Len(rulespec.predicates) |->
                                  PredicateYaml(rulespec.predicates[i])]>>>>
        ELSE <<>>)

\* Variant: the second key word is left at zero.
compute_keyed_hash_K0Only(key, facts_yaml, rulespec_yaml) ==
    [k0 |-> IF Len(key) >= 8 THEN SubSeq(key, 1, 8) ELSE ZeroWord,
     k1 |-> ZeroWord,
     msg |-> <<facts_yaml, 0, rulespec_yaml>>]

\* SipHash-2-4 keyed with (k0, k1) over facts_yaml, a NUL and rulespec_yaml.
\* The hash is treated as collision-free: it is the tuple of what it consumed.
compute_keyed_hash(key, facts_yaml, rulespec_yaml) ==
    [k0 |-> IF Len(key) >= 8 THEN SubSeq(key, 1, 8) ELSE ZeroWord,
     k1 |-> IF Len(key) >= 16 THEN SubSeq(key, 9, 16) ELSE ZeroWord,
     msg |-> <<facts_yaml, 0, rulespec_yaml>>]

\* base64 URL_SAFE_NO_PAD of the 8 little-endian bytes of the hash
Base64Encode(hash) == [b64 |-> hash]

mint_token(key, envelope, rulespec) ==
    [prefix |-> TOKEN_PREFIX,
     encoded |-> Base64Encode(compute_keyed_hash(key, canonical_facts_yaml(envelope),
                                                 canonical_rulespec_yaml(rulespec)))]

VtOk(b) == [ok |-> TRUE, value |-> b, err |-> ""]
VtErr(msg) == [ok |-> FALSE, value |-> FALSE, err |-> msg]

\* Variant: the rulespec is read before `verified` is looked at.
verify_token_RulespecFirst(env, rs, key) ==
    IF ~IsSome(read_verification_key(key))
    THEN VtErr("Verification key not found")
    ELSE IF ~read_envelope(env).ok
    THEN VtErr("envelope.yaml does not parse")
    ELSE IF ~IsSome(read_envelope(env).envelope)
    THEN VtErr("Envelope not found")
    ELSE IF ~read_rulespec(rs).ok
    THEN VtErr("rulespec.yaml does not parse")
    ELSE IF ~IsSome(read_rulespec(rs).rulespec)
    THEN VtErr("Rulespec not found")
    ELSE LET envelope == Unwrap(read_envelope(env).envelope)
             clean_envelope == [envelope EXCEPT !.verified = None]
             expected_token ==
                 mint_token(Unwrap(read_verification_key(key)), clean_envelope,
                            Unwrap(read_rulespec(rs).rulespec))
         IN  IF ~IsSome(envelope.verified)
             THEN VtOk(FALSE)
             ELSE VtOk(Unwrap(envelope.verified) = expected_token)

\* verify_token(session_id, working_dir) over the three files it reads.
verify_token(env, rs, key) ==
    IF ~IsSome(read_verification_key(key))
    THEN VtErr("Verification key not found")
    ELSE IF ~read_envelope(env).ok
    THEN VtErr("envelope.yaml does not parse")
    ELSE IF ~IsSome(read_envelope(env).envelope)
    THEN VtErr("Envelope not found")
    ELSE LET envelope == Unwrap(read_envelope(env).envelope)
         IN  IF ~IsSome(envelope.verified)
             THEN VtOk(FALSE)
             ELSE IF ~read_rulespec(rs).ok
             THEN VtErr("rulespec.yaml does not parse")
             ELSE IF ~IsSome(read_rulespec(rs).rulespec)
             THEN VtErr("Rulespec not found")
             ELSE LET clean_envelope == [envelope EXCEPT !.verified = None]
                      expected_token ==
                          mint_token(Unwrap(read_verification_key(key)), clean_envelope,
                                     Unwrap(read_rulespec(rs).rulespec))
                  IN  VtOk(Unwrap(envelope.verified) = expected_token)

-----------------------------------------------------------------------------
(***************************************************************************)
(* The write_envelope tool (envelope.rs)                                   *)
(***************************************************************************)
NoNote == [kind |-> "none", passed |-> 0, total |-> 0, failed |-> 0, err |-> ""]
Note(kind, err) == [kind |-> kind, passed |-> 0, total |-> 0, failed |-> 0, err |-> err]
Summary(result) ==
    [kind |-> IF result.failed_count = 0 THEN "summary_ok" ELSE "summary_failed",
     passed |-> result.passed_count,
     total |-> result.passed_count + result.failed_count,
     failed |-> result.failed_count,
     err |-> ""]

\* Variant: the stamped envelope is written with the token and no facts.
stamp_envelope_TokenOnly(envelope, rulespec, key, fresh) ==
    LET got == get_or_create_verification_key(key, fresh)
        token == mint_token(got.key, [envelope EXCEPT !.verified = None], rulespec)
    IN  [key |-> got.file, key_created |-> got.created,
         env |-> Some(format_envelope_yaml(ActionEnvelope(<<>>, Some(token)))),
         token |-> token]

\* stamp_envelope: the key file and the envelope file after it, and the token.
stamp_envelope(envelope, rulespec, key, fresh) ==
    LET got == get_or_create_verification_key(key, fresh)
        clean_envelope == [envelope EXCEPT !.verified = None]
        token == mint_token(got.key, clean_envelope, rulespec)
        stamped == [envelope EXCEPT !.verified = Some(token)]
    IN  [key |-> got.file, key_created |-> got.created,
         env |-> Some(format_envelope_yaml(stamped)), token |-> token]

\* What verify_envelope leaves behind when it returns before evaluating.
VerifySkipped(note, env, key, dl, eval) ==
    [note |-> note, env |-> env, key |-> key, dl |-> dl, eval |-> eval,
     writes |-> {}, evaluated |-> None, minted |-> None]

\* The characters of a token.
TokenText(token) == ToString(token)

\* Variant: the summary line of a stamped envelope shows the token.
VerifyEvaluated_ShowsToken(result, envelope, rulespec, env, key, fresh) ==
    LET all_pass == result.failed_count = 0 /\ result.passed_count > 0
        stamp == stamp_envelope(envelope, rulespec, key, fresh)
    IN  [note |-> [Summary(result) EXCEPT
                      !.err = IF all_pass THEN TokenText(stamp.token) ELSE ""],
         env |-> IF all_pass THEN stamp.env ELSE env,
         key |-> IF all_pass THEN stamp.key ELSE key,
         dl |-> TRUE, eval |-> TRUE,
         writes |-> {"rulespec.compiled.dl", "datalog_evaluation.txt"}
                    \cup (IF all_pass THEN {"envelope.yaml"} ELSE {})
                    \cup (IF all_pass /\ stamp.key_created THEN {"verification.key"} ELSE {}),
         evaluated |-> Some([facts |-> envelope.facts,
                             passed_count |-> result.passed_count,
                             failed_count |-> result.failed_count]),
         minted |-> IF all_pass THEN Some(stamp.token) ELSE None]

\* What verify_envelope leaves behind after execute_rules returned `result`.
VerifyEvaluated(result, envelope, rulespec, env, key, fresh) ==
    LET all_pass == result.failed_count = 0 /\ result.passed_count > 0
        stamp == stamp_envelope(envelope, rulespec, key, fresh)
    IN  [note |-> Summary(result),
         env |-> IF all_pass THEN stamp.env ELSE env,
         key |-> IF all_pass THEN stamp.key ELSE key,
         dl |-> TRUE, eval |-> TRUE,
         writes |-> {"rulespec.compiled.dl", "datalog_evaluation.txt"}
                    \cup (IF all_pass THEN {"envelope.yaml"} ELSE {})
                    \cup (IF all_pass /\ stamp.key_created THEN {"verification.key"} ELSE {}),
         evaluated |-> Some([facts |-> envelope.facts,
                             passed_count |-> result.passed_count,
                             failed_count |-> result.failed_count]),
         minted |-> IF all_pass THEN Some(stamp.token) ELSE None]

\* verify_envelope over the files it finds: the set of outcomes it may have
\* (one per result execute_rules may return).
verify_envelope(env, rs, key, dl, eval, fresh) ==
    IF ~read_rulespec(rs).ok
    THEN {VerifySkipped(Note("read_failed", "Failed to read rulespec"), env, key, dl, eval)}
    ELSE IF ~IsSome(read_rulespec(rs).rulespec)
    THEN {VerifySkipped(Note("no_rulespec", ""), env, key, dl, eval)}
    ELSE LET rulespec == Unwrap(read_rulespec(rs).rulespec)
             compiled == compile_rulespec(rulespec)
         IN  IF ~compiled.ok
             THEN {VerifySkipped(Note("compile_failed", compiled.err), env, key, dl, eval)}
             ELSE IF CompiledIsEmpty(compiled)
             THEN {VerifySkipped(Note("no_predicates", ""), env, key, dl, eval)}
             ELSE IF ~read_envelope(env).ok
             THEN {VerifySkipped(Note("load_failed", "Failed to load envelope"),
                                 env, key, dl, eval)}
             ELSE IF ~IsSome(read_envelope(env).envelope)
             THEN {VerifySkipped(Note("no_envelope", ""), env, key, dl, eval)}
             ELSE LET envelope == Unwrap(read_envelope(env).envelope)
                      facts == extract_facts(envelope, compiled)
                  IN  {VerifyEvaluated(result, envelope, rulespec, env, key, fresh) :
                          result \in execute_rules(compiled, facts)}

\* format_envelope_markdown: the facts, sorted by key, one block per key.
format_envelope_markdown(envelope) ==
    LET keys == SortedKeys(DOMAIN envelope.facts)
    IN  [i \in 1..Len(keys) |-> <<"**", keys[i], "**:", envelope.facts[keys[i]]>>]

Returned(kind, markdown, note) == [kind |-> kind, markdown |-> markdown, note |-> note]

\* What a call leaves behind when it returns before writing anything.
Rejected(kind, env, key, dl, eval) ==
    [ret |-> Returned(kind, <<>>, NoNote), env |-> env, key |-> key, dl |-> dl,
     eval |-> eval, writes |-> {}, first_write |-> None, evaluated |-> None,
     minted |-> None]

\* Variant: the envelope is written before its facts are checked for emptiness.
execute_write_envelope_WriteFirst(session, arg, env, rs, key, dl, eval, fresh) ==
    IF ~IsSome(session) THEN {Rejected("no_session", env, key, dl, eval)}
    ELSE IF ~IsSome(arg) THEN {Rejected("missing_facts", env, key, dl, eval)}
    ELSE IF ~EnvelopeFromStr(Unwrap(arg)).ok
    THEN {Rejected("invalid_yaml", env, key, dl, eval)}
    ELSE LET envelope == EnvelopeFromStr(Unwrap(arg)).envelope
             written == Some(format_envelope_yaml(envelope))
         IN  IF DOMAIN envelope.facts = {}
             THEN {Rejected("empty_facts", written, key, dl, eval)}
             ELSE {[ret |-> Returned("written", format_envelope_markdown(envelope), v.note),
                    env |-> v.env, key |-> v.key, dl |-> v.dl, eval |-> v.eval,
                    writes |-> v.writes \cup {"envelope.yaml"},
                    first_write |-> written,
                    evaluated |-> v.evaluated,
                    minted |-> v.minted] :
                   v \in verify_envelope(written, rs, key, dl, eval, fresh)}

\* execute_write_envelope: the set of outcomes of a call with ctx.session_id =
\* session and args["facts"] = arg on the given files.
execute_write_envelope(session, arg, env, rs, key, dl, eval, fresh) ==
    IF ~IsSome(session) THEN {Rejected("no_session", env, key, dl, eval)}
    ELSE IF ~IsSome(arg) THEN {Rejected("missing_facts", env, key, dl, eval)}
    ELSE IF ~EnvelopeFromStr(Unwrap(arg)).ok
    THEN {Rejected("invalid_yaml", env, key, dl, eval)}
    ELSE LET envelope == EnvelopeFromStr(Unwrap(arg)).envelope
             written == Some(format_envelope_yaml(envelope))
         IN  IF DOMAIN envelope.facts = {}
             THEN {Rejected("empty_facts", env, key, dl, eval)}
             ELSE {[ret |-> Returned("written", format_envelope_markdown(envelope), v.note),
                    env |-> v.env, key |-> v.key, dl |-> v.dl, eval |-> v.eval,
                    writes |-> v.writes \cup {"envelope.yaml"},
                    first_write |-> written,
                    evaluated |-> v.evaluated,
                    minted |-> v.minted] :
                   v \in verify_envelope(written, rs, key, dl, eval, fresh)}

-----------------------------------------------------------------------------
(***************************************************************************)
(* The inputs of the model                                                 *)
(***************************************************************************)
\* Envelope facts: the S1 envelope, one that lacks handle_tsv and lacks the
\* file, and the S1 envelope with one more fact.
FeatureFull ==
    VMap(<< <<VStr(<<"capabilities">>),
              VSeq(<<VStr(<<"handle_headers">>), VStr(<<"handle_tsv">>)>>)>>,
            <<VStr(<<"file">>), VStr(<<"src/csv.rs">>)>> >>)
FeaturePartial ==
    VMap(<< <<VStr(<<"capabilities">>), VSeq(<<VStr(<<"handle_headers">>)>>)>> >>)
FactsFull == (<<"feature">> :> FeatureFull)
FactsPartial == (<<"feature">> :> FeaturePartial)
FactsExtra == (<<"feature">> :> FeatureFull) @@ (<<"extra">> :> VStr(<<"tampered">>))
FactsPool == {FactsFull, FactsPartial, FactsExtra}

SelCaps == <<"feature", ".", "capabilities">>
SelFile == <<"feature", ".", "file">>
SelBad == <<"feature", "]">>
ContainsTsv(when) == Predicate(<<"caps">>, "contains", Some(VStr(<<"handle_tsv">>)), when)

\* The rulespecs a working directory may hold.
RsS1 == Rulespec(<<Claim(<<"caps">>, SelCaps)>>, <<ContainsTsv(None)>>)
RsDuplicateClaim ==
    Rulespec(<<Claim(<<"caps">>, SelCaps), Claim(<<"caps">>, SelFile)>>,
             <<Predicate(<<"caps">>, "exists", None, None)>>)
RsUnknownClaim ==
    Rulespec(<<Claim(<<"caps">>, SelCaps)>>,
             <<Predicate(<<"other">>, "exists", None, None)>>)
RsUnknownWhenClaim ==
    Rulespec(<<Claim(<<"caps">>, SelCaps)>>,
             <<ContainsTsv(Some(WhenCondition(<<"other">>, "exists", None)))>>)
RsMissingValue ==
    Rulespec(<<Claim(<<"caps">>, SelCaps)>>,
             <<Predicate(<<"caps">>, "equals", None, None)>>)
RsBadSelector ==
    Rulespec(<<Claim(<<"caps">>, SelBad)>>,
             <<Predicate(<<"caps">>, "exists", None, None)>>)
RsNoPredicates == Rulespec(<<Claim(<<"caps">>, SelCaps)>>, <<>>)
RulespecPool == {RsS1, RsDuplicateClaim, RsUnknownClaim, RsUnknownWhenClaim,
                 RsMissingValue, RsBadSelector, RsNoPredicates}
RulespecFiles ==
    {None, Some(MalformedRulespecDoc)} \cup {Some(RulespecDoc(r)) : r \in RulespecPool}

\* Keys: the random generator may yield any of these; KeyB differs from KeyA
\* in its first 16 bytes, KeyC differs from KeyA in its last 16 bytes only.
KeyOf(lo, hi) == [i \in 1..VERIFICATION_KEY_LEN |-> IF i <= SIPHASH_KEY_LEN THEN lo ELSE hi]
KeyA == KeyOf(1, 1)
KeyB == KeyOf(2, 1)
KeyC == KeyOf(1, 2)
GeneratedKeys == {KeyA, KeyB, KeyC}
ShortKey == <<1, 1, 1>>
KeyFiles == {None, Some(ShortKey)} \cup {Some(k) : k \in GeneratedKeys}

\* A `verified` string made up by the agent: a well-formed token that no key
\* of the host produced.
ForgedToken ==
    [prefix |-> TOKEN_PREFIX,
     encoded |-> Base64Encode(compute_keyed_hash(<<>>, <<>>, <<>>))]

\* The `verified` values an agent can put in its YAML: none, a made-up one,
\* or the one it can read in the present envelope.yaml.
AgentVerified(env) ==
    {None, Some(ForgedToken)}
    \cup (IF IsSome(env) /\ Unwrap(env).wf THEN {Unwrap(env).verified} ELSE {})

\* The YAML texts an agent may pass as `facts`.
AgentDocs(env) ==
    {MalformedDoc, Doc(None, None, Some(FactsFull))}
    \cup {Doc(Some(f), v, None) : f \in {<<>>, FactsFull, FactsPartial},
                                  v \in AgentVerified(env)}

SessionId == "session-1"
ToolInput(session, facts) == [session |-> session, facts |-> facts]
ToolInputs(env) ==
    {ToolInput(None, Some(Doc(Some(FactsFull), None, None))), ToolInput(Some(SessionId), None)}
    \cup {ToolInput(Some(SessionId), Some(d)) : d \in AgentDocs(env)}

-----------------------------------------------------------------------------
(***************************************************************************)
(* The state machine                                                       *)
(***************************************************************************)
NoWrite == [first_write |-> None, evaluated |-> None, minted |-> None]
NoInput == ToolInput(None, None)
NoCall == [writes |-> {}]
NoReturn == Returned("none", <<>>, NoNote)
NoVerdict == VtErr("not called")
\* The key generator is consulted only when no usable key file exists.
FreshKeys(key) == IF IsSome(read_verification_key(key)) THEN {KeyA} ELSE GeneratedKeys
Files == [env |-> envFile, rs |-> rsFile, key |-> keyFile]

\* The envelope tool before its first call, the rulespec file aside.
ToolStart ==
    /\ envFile = None
    /\ keyFile = None
    /\ dlFile = FALSE
    /\ evalFile = FALSE
    /\ edits = 0
    /\ lastOp = "init"
    /\ lastInput = NoInput
    /\ lastCall = NoCall
    /\ lastWrite = NoWrite
    /\ envWriter = "nobody"
    /\ ret = NoReturn
    /\ vtResult = NoVerdict
    /\ stampSnap = None
\* The envelope tool is not in use.
ToolIdle == ToolStart /\ rsFile = None

Init ==
    /\ ToolStart
    /\ rsFile \in RulespecFiles
    /\ RulesIdle
    /\ PlanIdle
    /\ PipelineIdle
    /\ ToolsetsIdle

\* The agent calls the write_envelope tool.
WriteEnvelope ==
    \E input \in ToolInputs(envFile), fresh \in FreshKeys(keyFile) :
      \E out \in execute_write_envelope(input.session, input.facts, envFile, rsFile,
                                        keyFile, dlFile, evalFile, fresh) :
        /\ envFile' = out.env
        /\ keyFile' = out.key
        /\ dlFile' = out.dl
        /\ evalFile' = out.eval
        /\ lastOp' = "write_envelope"
        /\ lastInput' = input
        /\ lastCall' = [writes |-> out.writes]
        /\ lastWrite' = IF "envelope.yaml" \in out.writes
                        THEN [first_write |-> out.first_write,
                              evaluated |-> out.evaluated, minted |-> out.minted]
                        ELSE lastWrite
        /\ envWriter' = IF "envelope.yaml" \in out.writes THEN "write_envelope"
                        ELSE envWriter
        /\ ret' = out.ret
        /\ stampSnap' = IF IsSome(out.minted)
                        THEN Some([env |-> out.env, rs |-> rsFile, key |-> out.key])
                        ELSE stampSnap
        /\ vtResult' = NoVerdict
        /\ UNCHANGED <<rsFile, edits>>
        /\ UNCHANGED OutsideTool

\* Another process checks the stamp.
VerifyToken ==
    /\ vtResult' = verify_token(envFile, rsFile, keyFile)
    /\ lastOp' = "verify_token"
    /\ lastInput' = NoInput
    /\ lastCall' = NoCall
    /\ ret' = NoReturn
    /\ UNCHANGED <<envFile, rsFile, keyFile, dlFile, evalFile, edits, lastWrite,
                   envWriter, stampSnap>>
    /\ UNCHANGED OutsideTool

\* A third party overwrites envelope.yaml with other facts, keeping `verified`.
TamperEnvelope ==
    /\ edits < MaxEdits
    /\ IsSome(envFile) /\ Unwrap(envFile).wf
    /\ \E f \in (FactsPool \cup {<<>>}) \ {Unwrap(Unwrap(envFile).facts)} :
          envFile' = Some(Doc(Some(f), Unwrap(envFile).verified, None))
    /\ edits' = edits + 1
    /\ lastOp' = "third_party"
    /\ envWriter' = "third_party"
    /\ lastInput' = NoInput
    /\ lastCall' = NoCall
    /\ ret' = NoReturn
    /\ vtResult' = NoVerdict
    /\ UNCHANGED <<rsFile, keyFile, dlFile, evalFile, lastWrite, stampSnap>>
    /\ UNCHANGED OutsideTool

\* A third party deletes envelope.yaml or leaves it unparsable.
DamageEnvelope ==
    /\ edits < MaxEdits
    /\ IsSome(envFile)
    /\ envFile' \in {None, Some(MalformedDoc)} \ {envFile}
    /\ edits' = edits + 1
    /\ lastOp' = "third_party"
    /\ envWriter' = "third_party"
    /\ lastInput' = NoInput
    /\ lastCall' = NoCall
    /\ ret' = NoReturn
    /\ vtResult' = NoVerdict
    /\ UNCHANGED <<rsFile, keyFile, dlFile, evalFile, lastWrite, stampSnap>>
    /\ UNCHANGED OutsideTool

\* The working directory's rulespec is edited, removed or damaged.
EditRulespec ==
    /\ edits < MaxEdits
    /\ rsFile' \in RulespecFiles \ {rsFile}
    /\ edits' = edits + 1
    /\ lastOp' = "third_party"
    /\ lastInput' = NoInput
    /\ lastCall' = NoCall
    /\ ret' = NoReturn
    /\ vtResult' = NoVerdict
    /\ UNCHANGED <<envFile, keyFile, dlFile, evalFile, lastWrite, envWriter, stampSnap>>
    /\ UNCHANGED OutsideTool

\* The host's key file is removed, truncated or replaced.
EditKey ==
    /\ edits < MaxEdits
    /\ keyFile' \in KeyFiles \ {keyFile}
    /\ edits' = edits + 1
    /\ lastOp' = "third_party"
    /\ lastInput' = NoInput
    /\ lastCall' = NoCall
    /\ ret' = NoReturn
    /\ vtResult' = NoVerdict
    /\ UNCHANGED <<envFile, rsFile, dlFile, evalFile, lastWrite, envWriter, stampSnap>>
    /\ UNCHANGED OutsideTool

Next ==
    \/ WriteEnvelope
    \/ VerifyToken
    \/ TamperEnvelope
    \/ DamageEnvelope
    \/ EditRulespec
    \/ EditKey

Spec == Init /\ [][Next]_vars

-----------------------------------------------------------------------------
(***************************************************************************)
(* Properties of the envelope tool and of the token                        *)
(***************************************************************************)
\* The last step was a write_envelope call that wrote envelope.yaml.
WroteNow == lastOp = "write_envelope" /\ "envelope.yaml" \in lastCall.writes
\* The last step was a write_envelope call that stamped the envelope.
StampedNow == WroteNow /\ IsSome(lastWrite.minted)
\* The envelope and the rulespec that the files hold (when they parse).
EnvelopeOnDisk == Unwrap(read_envelope(envFile).envelope)
RulespecOnDisk == Unwrap(read_rulespec(rsFile).rulespec)
KeyOnDisk == Unwrap(read_verification_key(keyFile))

\* C1: whenever the envelope.yaml left by write_envelope calls has `verified`
\* set, the facts in the file were evaluated against the rulespec in the call
\* that wrote it, with failed_count = 0 and passed_count > 0.
C1_VerifiedImpliesEvaluated ==
    (envWriter = "write_envelope" /\ IsSome(EnvelopeOnDisk.verified)) =>
        /\ IsSome(lastWrite.evaluated)
        /\ Unwrap(lastWrite.evaluated).facts = EnvelopeOnDisk.facts
        /\ Unwrap(lastWrite.evaluated).failed_count = 0
        /\ Unwrap(lastWrite.evaluated).passed_count > 0

\* A call whose YAML carried `verified` left it on disk although nothing was
\* evaluated.
C1_UnevaluatedVerifiedOnDisk ==
    /\ WroteNow
    /\ IsSome(Unwrap(lastInput.facts).verified)
    /\ ~IsSome(lastWrite.evaluated)
    /\ EnvelopeOnDisk.verified = Some(ForgedToken)

\* C2: `verified` is set by the verifier only: the first write of envelope.yaml
\* in a write_envelope call carries no `verified`, and a `verified` on disk
\* after the call is the token stamp_envelope minted in it.
C2_VerifiedOnlyFromVerifier ==
    envWriter = "write_envelope" =>
        /\ ~IsSome(Unwrap(lastWrite.first_write).verified)
        /\ (IsSome(EnvelopeOnDisk.verified) => EnvelopeOnDisk.verified = lastWrite.minted)

\* The first write of a call carried the `verified` of the agent's YAML.
C2_FirstWriteCarriesAgentVerified ==
    /\ WroteNow
    /\ IsSome(Unwrap(lastInput.facts).verified)
    /\ Unwrap(lastWrite.first_write).verified = Unwrap(lastInput.facts).verified

\* C3: once a write_envelope call has stamped the envelope, a verify_token call
\* that finds the envelope, rulespec and key files as the stamp left them
\* returns true.
C3_StampedVerifies ==
    (lastOp = "verify_token" /\ stampSnap = Some(Files)) => vtResult = VtOk(TRUE)

\* verify_token ran on the untouched files of a stamp and said true.
C3_VerifiedAfterStamp ==
    /\ lastOp = "verify_token"
    /\ stampSnap = Some(Files)
    /\ IsSome(EnvelopeOnDisk.verified)
    /\ vtResult = VtOk(TRUE)

\* The envelope file is the stamped one with other facts and the same
\* `verified`, written by a third party; rulespec and key are as at the stamp.
TamperedSinceStamp ==
    /\ IsSome(stampSnap)
    /\ rsFile = Unwrap(stampSnap).rs
    /\ keyFile = Unwrap(stampSnap).key
    /\ envWriter = "third_party"
    /\ IsSome(envFile) /\ Unwrap(envFile).wf
    /\ Unwrap(envFile).verified = Unwrap(Unwrap(stampSnap).env).verified
    /\ Unwrap(envFile).facts # Unwrap(Unwrap(stampSnap).env).facts

\* C4: after a stamp, when a third party has overwritten envelope.yaml with
\* different facts and the same `verified` string, verify_token returns false.
C4_TamperedFactsRejected ==
    (lastOp = "verify_token" /\ TamperedSinceStamp) => vtResult = VtOk(FALSE)

\* verify_token ran on a tampered envelope and said false.
C4_TamperDetected ==
    /\ lastOp = "verify_token"
    /\ TamperedSinceStamp
    /\ edits = 1
    /\ vtResult = VtOk(FALSE)

\* What verify_token finds in the three files.
KeyUsable == IsSome(keyFile) /\ Len(Unwrap(keyFile)) = VERIFICATION_KEY_LEN
EnvelopeParses == IsSome(envFile) /\ Unwrap(envFile).wf
RulespecParses == IsSome(rsFile) /\ Unwrap(rsFile).wf
HasVerified == IsSome(Unwrap(envFile).verified)

\* C5: verify_token decides in a fixed order: an error when the key file is
\* missing or not 32 bytes long; else an error when the envelope is missing;
\* else false when the envelope has no `verified`, whatever the rulespec file
\* is; else an error when the rulespec is missing; else whether the stored token
\* equals the recomputed one.  It writes no file.
C5_VerifyTokenOrder ==
    [][lastOp' = "verify_token" =>
        /\ <<envFile', rsFile', keyFile', dlFile', evalFile'>>
              = <<envFile, rsFile, keyFile, dlFile, evalFile>>
        /\ (~KeyUsable => ~vtResult'.ok)
        /\ (KeyUsable /\ envFile = None => ~vtResult'.ok)
        /\ (KeyUsable /\ EnvelopeParses /\ ~HasVerified => vtResult' = VtOk(FALSE))
        /\ (KeyUsable /\ EnvelopeParses /\ HasVerified /\ rsFile = None => ~vtResult'.ok)
        /\ (KeyUsable /\ EnvelopeParses /\ HasVerified /\ RulespecParses =>
              vtResult' = VtOk(Unwrap(Unwrap(envFile).verified)
                               = mint_token(Unwrap(keyFile),
                                            ActionEnvelope(Unwrap(Unwrap(envFile).facts), None),
                                            Unwrap(rsFile).rulespec)))
    ]_vars

\* verify_token answered false for an envelope without `verified` although the
\* rulespec file is missing.
C5_FalseWithoutRulespec ==
    /\ lastOp = "verify_token"
    /\ KeyUsable /\ EnvelopeParses /\ ~HasVerified
    /\ rsFile = None
    /\ vtResult = VtOk(FALSE)

KeyWithByte(key, i, b) == [key EXCEPT ![i] = b]
MintedNow == Unwrap(lastWrite.minted)

\* C6 as stated: for the envelope and rulespec of a stamp, changing any single
\* byte of the 32-byte key changes the token mint_token returns.
C6_AnyKeyByteChangesToken ==
    StampedNow =>
        \A i \in 1..VERIFICATION_KEY_LEN, b \in Byte :
            b # KeyOnDisk[i] =>
                mint_token(KeyWithByte(KeyOnDisk, i, b), EnvelopeOnDisk, RulespecOnDisk)
                    # MintedNow

\* C6, amended: changing any single byte among the first 16 bytes of the key
\* changes the token; changing a byte among the last 16 leaves it as it is.
C6_ConsumedKeyByteChangesToken ==
    StampedNow =>
        \A i \in 1..VERIFICATION_KEY_LEN, b \in Byte :
            b # KeyOnDisk[i] =>
                ((mint_token(KeyWithByte(KeyOnDisk, i, b), EnvelopeOnDisk, RulespecOnDisk)
                    # MintedNow) <=> (i <= SIPHASH_KEY_LEN))

\* A stamp whose token changes with byte 16 of the key and not with byte 17.
C6_StampedUnderKey ==
    /\ StampedNow
    /\ mint_token(KeyOnDisk, EnvelopeOnDisk, RulespecOnDisk) = MintedNow
    /\ mint_token(KeyWithByte(KeyOnDisk, SIPHASH_KEY_LEN, 0), EnvelopeOnDisk, RulespecOnDisk)
          # MintedNow
    /\ mint_token(KeyWithByte(KeyOnDisk, SIPHASH_KEY_LEN + 1, 0), EnvelopeOnDisk,
                  RulespecOnDisk) = MintedNow

\* C7: mint_token is blind to `verified`: for every key, and the envelope and
\* rulespec on disk, the token with `verified` set to any value is the token
\* with `verified` cleared; stamping a stamped envelope again yields its token.
C7_MintIgnoresVerified ==
    /\ (EnvelopeParses /\ RulespecParses =>
          \A k \in GeneratedKeys, x \in AgentVerified(envFile) :
              mint_token(k, [EnvelopeOnDisk EXCEPT !.verified = x], RulespecOnDisk)
                 = mint_token(k, [EnvelopeOnDisk EXCEPT !.verified = None], RulespecOnDisk))
    /\ (StampedNow =>
          /\ mint_token(KeyOnDisk, EnvelopeOnDisk, RulespecOnDisk) = MintedNow
          /\ \A fresh \in GeneratedKeys :
                stamp_envelope(EnvelopeOnDisk, RulespecOnDisk, keyFile, fresh).token
                   = MintedNow)

\* A stamped envelope whose second stamping leaves the file as it is.
C7_RestampIsNoChange ==
    /\ StampedNow
    /\ EnvelopeOnDisk.verified = lastWrite.minted
    /\ stamp_envelope(EnvelopeOnDisk, RulespecOnDisk, keyFile, KeyA).env = envFile

\* How a call answers its input before it writes anything: the guidance it
\* returns, or "accepted".
InputVerdict(input) ==
    IF ~IsSome(input.session) THEN "no_session"
    ELSE IF ~IsSome(input.facts) THEN "missing_facts"
    ELSE IF ~Unwrap(input.facts).wf THEN "invalid_yaml"
    ELSE IF ~IsSome(Unwrap(input.facts).facts) THEN "empty_facts"
    ELSE IF DOMAIN Unwrap(Unwrap(input.facts).facts) = {} THEN "empty_facts"
    ELSE "accepted"

\* C8: a write_envelope call whose parsed facts map is empty (`facts: {}`, or a
\* bare map without the `facts:` wrapper) returns the guidance message and
\* changes nothing: envelope.yaml, the audit artifacts and the key file stay as
\* they are and no token is minted.  The same holds without a session, without
\* the `facts` argument, and for YAML that does not parse.
C8_RejectedCallChangesNothing ==
    [][(lastOp' = "write_envelope" /\ InputVerdict(lastInput') # "accepted") =>
        /\ ret' = Returned(InputVerdict(lastInput'), <<>>, NoNote)
        /\ <<envFile', rsFile', keyFile', dlFile', evalFile'>>
              = <<envFile, rsFile, keyFile, dlFile, evalFile>>
        /\ lastCall'.writes = {}
        /\ lastWrite' = lastWrite
        /\ stampSnap' = stampSnap
    ]_vars

\* A bare fact map was turned down while a stamped envelope was on disk.
C8_BareMapLeavesStamp ==
    /\ lastOp = "write_envelope"
    /\ lastInput = ToolInput(Some(SessionId), Some(Doc(None, None, Some(FactsFull))))
    /\ ret.kind = "empty_facts"
    /\ stampSnap = Some(Files)
    /\ dlFile /\ evalFile

\* The texts a returned string is made of, besides the facts in markdown.
ReturnTexts(r) == {r.kind, r.note.kind, r.note.err}

\* C9: the string write_envelope returns does not depend on the key or on the
\* token: the call would have returned the same with any other key file, and
\* the string does not contain the token written to envelope.yaml.
C9_ReturnIndependentOfKey ==
    [][lastOp' = "write_envelope" =>
        /\ \A k \in {Some(KeyA), Some(KeyB)} :
              ret' \in {o.ret : o \in execute_write_envelope(
                                        lastInput'.session, lastInput'.facts, envFile,
                                        rsFile, k, dlFile, evalFile, KeyA)}
        /\ ("envelope.yaml" \in lastCall'.writes /\ IsSome(Unwrap(envFile').verified) =>
              TokenText(Unwrap(Unwrap(envFile').verified)) \notin ReturnTexts(ret'))
    ]_vars

\* A call created the key, stamped the envelope and reported the summary.
C9_StampedAndReported ==
    /\ StampedNow
    /\ "verification.key" \in lastCall.writes
    /\ ret.note.kind = "summary_ok"
    /\ EnvelopeOnDisk.verified = lastWrite.minted

\* C10: when the rulespec read by write_envelope has a validation error
\* (duplicate claim name, a predicate claim or when.claim that is not declared,
\* a rule that needs a value and has none, an invalid selector), verification
\* reports a failure to compile and the envelope is not stamped.
C10_InvalidRulespecNotCompiled ==
    (/\ lastOp = "write_envelope" /\ ret.kind = "written"
     /\ RulespecParses
     /\ ~RulespecValidate(RulespecOnDisk)) =>
        /\ ret.note.kind = "compile_failed"
        /\ ~IsSome(lastWrite.minted)

\* An envelope was stamped under a rulespec that declares a claim twice.
C10_StampedUnderInvalidRulespec ==
    /\ StampedNow
    /\ rsFile = Some(RulespecDoc(RsDuplicateClaim))
    /\ ~RulespecValidate(RulespecOnDisk)
    /\ ret.note.kind = "summary_ok"

-----------------------------------------------------------------------------
(***************************************************************************)
(* Direct evaluation (invariants.rs)                                       *)
(***************************************************************************)
PredicateResult(passed, reason) == [passed |-> passed, reason |-> reason]

\* value_contains: membership for a sequence, substring for a string, value
\* membership for a mapping, equality otherwise.
value_contains(haystack, needle) ==
    IF haystack.t = "seq" THEN \E i \in 1..Len(haystack.v) : haystack.v[i] = needle
    ELSE IF haystack.t = "str"
    THEN needle.t = "str" /\ StrContains(haystack.v, needle.v)
    ELSE IF haystack.t = "map"
    THEN \E i \in 1..Len(haystack.v) : haystack.v[i][2] = needle
    ELSE haystack = needle

\* The positions of the selected values of one kind, and the first of them:
\* the loops over selected_values return at the first value of the kind.
OfKind(selected_values, t) == {i \in 1..Len(selected_values) : selected_values[i].t = t}
FirstOfKind_Last(selected_values, t) ==
    selected_values[CHOOSE i \in OfKind(selected_values, t) :
                        \A j \in OfKind(selected_values, t) : j <= i]
FirstOfKind(selected_values, t) ==
    selected_values[CHOOSE i \in OfKind(selected_values, t) :
                        \A j \in OfKind(selected_values, t) : i <= j]
IsNumber(opt) == IsSome(opt) /\ Unwrap(opt).t = "num"

\* evaluate_predicate(&predicate, &selected_values)
evaluate_predicate(predicate, selected_values) ==
    LET non_null == {i \in 1..Len(selected_values) : selected_values[i].t # "null"}
        value == predicate.value
        target == Unwrap(value)
    IN
    IF predicate.rule = "exists"
    THEN IF non_null = {} THEN PredicateResult(FALSE, "Value does not exist")
         ELSE PredicateResult(TRUE, "Value exists")
    ELSE IF predicate.rule = "not_exists"
    THEN IF non_null = {} THEN PredicateResult(TRUE, "Value does not exist as expected")
         ELSE PredicateResult(FALSE, "Value exists but should not")
    ELSE IF predicate.rule = "contains"
    THEN IF ~IsSome(value) THEN PredicateResult(FALSE, "No value specified for contains")
         ELSE IF \E i \in 1..Len(selected_values) : value_contains(selected_values[i], target)
         THEN PredicateResult(TRUE, "Value contains")
         ELSE PredicateResult(FALSE, "Value does not contain")
    ELSE IF predicate.rule = "equals"
    THEN IF ~IsSome(value) THEN PredicateResult(FALSE, "No value specified for equals")
         ELSE IF Len(selected_values) # 1
         THEN PredicateResult(FALSE, "Expected single value for equals")
         ELSE IF selected_values[1] = target THEN PredicateResult(TRUE, "Values are equal")
         ELSE PredicateResult(FALSE, "Values not equal")
    ELSE IF predicate.rule = "min_length"
    THEN IF ~IsNumber(value)
         THEN PredicateResult(FALSE, "min_length requires a numeric value")
         ELSE IF OfKind(selected_values, "seq") = {}
         THEN PredicateResult(FALSE, "Value is not an array")
         ELSE PredicateResult(Len(FirstOfKind(selected_values, "seq").v) >= target.v,
                              "Array has elements (min)")
    ELSE IF predicate.rule = "max_length"
    THEN IF ~IsNumber(value)
         THEN PredicateResult(FALSE, "max_length requires a numeric value")
         ELSE IF OfKind(selected_values, "seq") = {}
         THEN PredicateResult(FALSE, "Value is not an array")
         ELSE PredicateResult(Len(FirstOfKind(selected_values, "seq").v) <= target.v,
                              "Array has elements (max)")
    ELSE IF predicate.rule = "greater_than"
    THEN IF ~IsNumber(value)
         THEN PredicateResult(FALSE, "greater_than requires a numeric value")
         ELSE IF OfKind(selected_values, "num") = {}
         THEN PredicateResult(FALSE, "Value is not a number")
         ELSE PredicateResult(FirstOfKind(selected_values, "num").v > target.v, "v > target")
    ELSE IF predicate.rule = "less_than"
    THEN IF ~IsNumber(value)
         THEN PredicateResult(FALSE, "less_than requires a numeric value")
         ELSE IF OfKind(selected_values, "num") = {}
         THEN PredicateResult(FALSE, "Value is not a number")
         ELSE PredicateResult(FirstOfKind(selected_values, "num").v < target.v, "v < target")
    ELSE IF predicate.rule = "matches"
    THEN IF ~(IsSome(value) /\ target.t = "str")
         THEN PredicateResult(FALSE, "matches requires a string pattern")
         ELSE IF ~RegexNew(target.v).ok THEN PredicateResult(FALSE, "Invalid regex")
         ELSE IF \E i \in OfKind(selected_values, "str") :
                    RegexIsMatch(RegexNew(target.v), selected_values[i].v)
         THEN PredicateResult(TRUE, "matches pattern")
         ELSE PredicateResult(FALSE, "No value matches pattern")
    ELSE IF predicate.rule = "not_contains"
    THEN IF ~IsSome(value) THEN PredicateResult(FALSE, "No value specified for not_contains")
         ELSE IF \E i \in 1..Len(selected_values) : value_contains(selected_values[i], target)
         THEN PredicateResult(FALSE, "Value contains but should not")
         ELSE PredicateResult(TRUE, "Value does not contain")
    ELSE IF predicate.rule = "any_of"
    THEN IF ~IsSome(value) THEN PredicateResult(FALSE, "No value specified for any_of")
         ELSE IF target.t # "seq" THEN PredicateResult(FALSE, "any_of requires an array value")
         ELSE IF \E i \in 1..Len(selected_values) :
                    \E j \in 1..Len(target.v) : target.v[j] = selected_values[i]
         THEN PredicateResult(TRUE, "Value is in allowed set")
         ELSE PredicateResult(FALSE, "Value is not in allowed set")
    ELSE \* none_of
         IF ~IsSome(value) THEN PredicateResult(FALSE, "No value specified for none_of")
         ELSE IF target.t # "seq" THEN PredicateResult(FALSE, "none_of requires an array value")
         ELSE IF \E i \in 1..Len(selected_values) :
                    \E j \in 1..Len(target.v) : target.v[j] = selected_values[i]
         THEN PredicateResult(FALSE, "Value is in forbidden set")
         ELSE PredicateResult(TRUE, "Value is not in forbidden set")

\* claims.get(name) on the lookup collected from rulespec.claims: of two
\* claims with one name the later one stays.
ClaimLookup(claims, name) ==
    LET named == {i \in 1..Len(claims) : claims[i].name = name}
    IN  IF named = {} THEN None
        ELSE Some(claims[CHOOSE i \in named : \A j \in named : j <= i])

PredicateEvaluation(claim_name, selected_values, result) ==
    [claim_name |-> claim_name, selected_values |-> selected_values, result |-> result]

\* Whether the `when` condition of a predicate is met.
WhenMet(rulespec, envelope_value, when) ==
    LET when_claim == ClaimLookup(rulespec.claims, when.claim)
        selector == SelectorParse(Unwrap(when_claim).selector)
        when_pred == Predicate(when.claim, when.rule, when.value, None)
    IN  /\ IsSome(when_claim)
        /\ selector.ok
        /\ evaluate_predicate(when_pred, Select(selector.segments, envelope_value)).passed

\* One iteration of the predicate loop of evaluate_rulespec.
EvaluateOne(rulespec, envelope_value, predicate) ==
    LET claim == ClaimLookup(rulespec.claims, predicate.claim)
        selector == SelectorParse(Unwrap(claim).selector)
        values == Select(selector.segments, envelope_value)
    IN  IF IsSome(predicate.when) /\ ~WhenMet(rulespec, envelope_value, Unwrap(predicate.when))
        THEN PredicateEvaluation(predicate.claim, <<>>,
                 PredicateResult(TRUE, "Skipped (when condition not met)"))
        ELSE IF ~IsSome(claim)
        THEN PredicateEvaluation(predicate.claim, <<>>, PredicateResult(FALSE, "Unknown claim"))
        ELSE IF ~selector.ok
        THEN PredicateEvaluation(predicate.claim, <<>>, PredicateResult(FALSE, "Invalid selector"))
        ELSE PredicateEvaluation(predicate.claim, values, evaluate_predicate(predicate, values))

\* evaluate_rulespec(&rulespec, &envelope)
evaluate_rulespec(rulespec, envelope) ==
    LET envelope_value == to_yaml_value(envelope)
        predicate_results ==
            [i \in 1..Len(rulespec.predicates) |->
                EvaluateOne(rulespec, envelope_value, rulespec.predicates[i])]
    IN  [predicate_results |-> predicate_results,
         passed_count |-> Cardinality({i \in 1..Len(predicate_results) :
                                          predicate_results[i].result.passed}),
         failed_count |-> Cardinality({i \in 1..Len(predicate_results) :
                                          ~predicate_results[i].result.passed})]

-----------------------------------------------------------------------------
(***************************************************************************)
(* The rule pipeline on its own: compile_rulespec, extract_facts and       *)
(* execute_rules applied to one rulespec and one envelope (datalog.rs)     *)
(***************************************************************************)
\* Envelope facts with a null, with nested number lists, and with a
\* top-level key named `facts`.
FeatureNull ==
    VMap(<< <<VStr(<<"capabilities">>), VNull>>,
            <<VStr(<<"file">>), VStr(<<"src/csv.rs">>)>> >>)
FeatureNumbers ==
    VMap(<< <<VStr(<<"capabilities">>),
              VSeq(<<VSeq(<<VNum(1)>>), VSeq(<<VNum(1), VNum(5)>>)>>)>> >>)
\* Capabilities that are an empty sequence, a sequence holding only null, and
\* the two number lists in the other order.
FeatureEmptySeq == VMap(<< <<VStr(<<"capabilities">>), VSeq(<<>>)>> >>)
FeatureNullSeq == VMap(<< <<VStr(<<"capabilities">>), VSeq(<<VNull>>)>> >>)
FeatureNumbersRev ==
    VMap(<< <<VStr(<<"capabilities">>),
              VSeq(<<VSeq(<<VNum(1), VNum(5)>>), VSeq(<<VNum(1)>>)>>)>> >>)
\* Capabilities holding an empty string.
FeatureEmptyString ==
    VMap(<< <<VStr(<<"capabilities">>), VSeq(<<VStr(<<>>), VStr(<<"handle_headers">>)>>)>> >>)
FactsEmptyString == (<<"feature">> :> FeatureEmptyString)
FactsEmptySeq == (<<"feature">> :> FeatureEmptySeq)
FactsNullSeq == (<<"feature">> :> FeatureNullSeq)
FactsNumbersRev == (<<"feature">> :> FeatureNumbersRev)
FactsNull == (<<"feature">> :> FeatureNull)
FactsNumbers == (<<"feature">> :> FeatureNumbers)
FactsFactsKey ==
    (<<"feature">> :> FeatureFull) @@ (<<"facts">> :> VMap(<< <<VStr(<<"feature">>), FeaturePartial>> >>))
EnvelopePool ==
    {ActionEnvelope(f, None) :
        f \in {FactsFull, FactsPartial, FactsNull, FactsNumbers, FactsFactsKey,
                FactsEmptySeq, FactsNullSeq, FactsNumbersRev, FactsEmptyString}}

\* The selectors of the two claims, written with zero, one or two `facts.`
\* in front.
FactsPrefix == <<"facts", ".">>
RECURSIVE Prefixed(_, _)
Prefixed(n, selector) ==
    IF n = 0 THEN selector ELSE FactsPrefix \o Prefixed(n - 1, selector)
MaxPrefix == 2

OnCaps(rule, value, when) == Predicate(<<"caps">>, rule, value, when)
WhenFile(rule, value) == Some(WhenCondition(<<"file">>, rule, value))
WhenCaps(rule, value) == Some(WhenCondition(<<"caps">>, rule, value))
CsvFile == Some(VStr(<<"src/csv.rs">>))
\* Operands of any_of / none_of: two plain names, one element with ", " in
\* it, one element in brackets.
TsvOrOther == Some(VSeq(<<VStr(<<"handle_tsv">>), VStr(<<"other">>)>>))
CommaElement == Some(VSeq(<<VStr(<<"other", ",", " ", "handle_tsv">>)>>))
BracketElement == Some(VSeq(<<VStr(<<"[", "handle_tsv", "]">>)>>))
\* The predicate lists of the rulespecs given to the rule pipeline.
PredicateLists ==
    {<<ContainsTsv(None)>>,
     <<OnCaps("exists", None, None), OnCaps("not_exists", None, None)>>,
     <<ContainsTsv(WhenFile("exists", None))>>,
     <<ContainsTsv(WhenFile("equals", CsvFile)),
       OnCaps("exists", None, WhenFile("not_exists", None))>>,
     <<OnCaps("exists", None, WhenCaps("contains", Some(VStr(<<"handle_headers">>))))>>,
     <<ContainsTsv(WhenCaps("min_length", Some(VNum(2))))>>,
     <<OnCaps("greater_than", Some(VNum(3)), None)>>,
     <<OnCaps("less_than", Some(VNum(3)), None), OnCaps("min_length", Some(VNum(2)), None)>>,
     <<OnCaps("max_length", Some(VNum(1)), None)>>,
     <<OnCaps("exists", None, WhenCaps("greater_than", Some(VNum(3))))>>,
     <<OnCaps("any_of", TsvOrOther, None), OnCaps("none_of", TsvOrOther, None)>>,
     <<OnCaps("any_of", Some(VSeq(<<>>)), None), OnCaps("none_of", Some(VSeq(<<>>)), None)>>,
     <<OnCaps("any_of", CommaElement, None), OnCaps("none_of", BracketElement, None)>>}

RulespecOf(n, predicates) ==
    Rulespec(<<Claim(<<"caps">>, Prefixed(n, SelCaps)), Claim(<<"file">>, Prefixed(n, SelFile))>>,
             predicates)
\* Rulespecs whose `caps` claim selects each element of the capabilities.
SelCapsEach == SelCaps \o <<"[", "*", "]">>
RulespecOfEach(predicates) ==
    Rulespec(<<Claim(<<"caps">>, SelCapsEach), Claim(<<"file">>, SelFile)>>, predicates)
PredicateListsEach ==
    {<<OnCaps("min_length", Some(VNum(2)), None), OnCaps("max_length", Some(VNum(1)), None)>>,
     <<OnCaps("exists", None, None), OnCaps("not_exists", None, None)>>}
RulesRulespecs ==
    {RulespecOf(n, ps) : n \in 0..MaxPrefix, ps \in PredicateLists}
    \cup {RulespecOfEach(ps) : ps \in PredicateListsEach}
    \cup {RsBadSelector, RsUnknownClaim}

InitRules ==
    /\ ToolIdle
    /\ ToolsetsIdle
    /\ PlanIdle
    /\ PipelineIdle
    /\ rulespecIn \in {Some(r) : r \in RulesRulespecs}
    /\ envelopeIn \in {Some(e) : e \in EnvelopePool}
    /\ compiledOut = None
    /\ factsOut = None
    /\ runs = <<>>
    /\ rulesPc = "input"
    /\ directOut = None

\* compile_rulespec(&rulespec, ..)
Compile ==
    /\ rulesPc = "input"
    /\ compiledOut' = Some(compile_rulespec(Unwrap(rulespecIn)))
    /\ rulesPc' = IF compile_rulespec(Unwrap(rulespecIn)).ok THEN "compiled" ELSE "rejected"
    /\ UNCHANGED <<rulespecIn, envelopeIn, factsOut, runs, directOut, OutsideRules>>

\* extract_facts(&envelope, &compiled)
ExtractFacts ==
    /\ rulesPc = "compiled"
    /\ factsOut' = Some(extract_facts(Unwrap(envelopeIn), Unwrap(compiledOut)))
    /\ rulesPc' = "extracted"
    /\ UNCHANGED <<rulespecIn, envelopeIn, compiledOut, runs, directOut, OutsideRules>>

\* execute_rules(&compiled, &facts), called once more on the same arguments
\* while fewer than MaxRuns calls were made.
ExecuteRules ==
    /\ rulesPc \in {"extracted", "executed"}
    /\ Len(runs) < MaxRuns
    /\ \E result \in execute_rules(Unwrap(compiledOut), Unwrap(factsOut)) :
          runs' = Append(runs, result)
    /\ rulesPc' = "executed"
    /\ UNCHANGED <<rulespecIn, envelopeIn, compiledOut, factsOut, directOut, OutsideRules>>

\* evaluate_rulespec(&rulespec, &envelope): the direct evaluator on the same
\* rulespec and envelope.
EvaluateRulespec ==
    /\ rulesPc # "idle"
    /\ directOut = None
    /\ directOut' = Some(evaluate_rulespec(Unwrap(rulespecIn), Unwrap(envelopeIn)))
    /\ UNCHANGED <<rulespecIn, envelopeIn, compiledOut, factsOut, runs, rulesPc,
                   OutsideRules>>

NextRules ==
    \/ Compile
    \/ ExtractFacts
    \/ ExecuteRules
    \/ EvaluateRulespec

SpecRules == InitRules /\ [][NextRules]_vars

-----------------------------------------------------------------------------
(***************************************************************************)
(* Properties of the rule pipeline                                         *)
(***************************************************************************)
RulespecGiven == Unwrap(rulespecIn)
EnvelopeGiven == Unwrap(envelopeIn)
Compiled == Unwrap(compiledOut)
Extracted == Unwrap(factsOut)
SkippedResult == PredResult(TRUE, "Skipped (when condition not met)")

\* The results a rulespec with the same claims and the single top-level
\* predicate p may get on the facts.
TopLevelResults(rulespec, p, facts) ==
    {run.predicate_results[1] :
        run \in execute_rules(compile_rulespec(Rulespec(rulespec.claims, <<p>>)), facts)}
\* The guard of predicate p written as a top-level predicate, and p without
\* its guard.
GuardOf(p) ==
    Predicate(Unwrap(p.when).claim, Unwrap(p.when).rule, Unwrap(p.when).value, None)
Unguarded(p) == Predicate(p.claim, p.rule, p.value, None)
SameVerdict(a, b) == a.passed = b.passed /\ a.reason = b.reason

\* C11: in every execute_rules result, a predicate with a `when` guard is
\* recorded as passed with reason "Skipped (when condition not met)" when
\* the guard, evaluated as a top-level predicate, does not hold, and with
\* exactly the result of its own rule when the guard holds.
C11_WhenGuardDecides ==
    rulesPc = "executed" =>
      \A k \in 1..Len(runs), i \in 1..Len(RulespecGiven.predicates) :
        LET p == RulespecGiven.predicates[i]
            recorded == runs[k].predicate_results[i]
            guard == TopLevelResults(RulespecGiven, GuardOf(p), Extracted)
            own == TopLevelResults(RulespecGiven, Unguarded(p), Extracted)
        IN  IsSome(p.when) =>
              /\ (\A g \in guard : ~g.passed) => recorded = SkippedResult
              /\ (\A g \in guard : g.passed) => \E o \in own : SameVerdict(recorded, o)
              /\ recorded = SkippedResult \/ \E o \in own : SameVerdict(recorded, o)
\* A run where one guard does not hold over a predicate whose own rule fails,
\* and another guard holds over a predicate whose own rule fails.
C11_SkippedAndEvaluated ==
    /\ rulesPc = "executed"
    /\ \E i \in 1..Len(RulespecGiven.predicates) :
          LET p == RulespecGiven.predicates[i]
          IN  /\ IsSome(p.when)
              /\ \A g \in TopLevelResults(RulespecGiven, GuardOf(p), Extracted) : ~g.passed
              /\ \A o \in TopLevelResults(RulespecGiven, Unguarded(p), Extracted) : ~o.passed
              /\ runs[1].predicate_results[i] = SkippedResult
    /\ \E i \in 1..Len(RulespecGiven.predicates) :
          LET p == RulespecGiven.predicates[i]
          IN  /\ IsSome(p.when)
              /\ \A g \in TopLevelResults(RulespecGiven, GuardOf(p), Extracted) : g.passed
              /\ ~runs[1].predicate_results[i].passed

\* The claim's selector selects something in the envelope, and only nulls.
SelectsOnlyNull(envelope, compiled, claim_name) ==
    LET values == ClaimValues(envelope, compiled.claims[claim_name])
    IN  values # <<>> /\ \A i \in 1..Len(values) : values[i] = VNull
\* The value without the map entries whose value is null and without the
\* sequence elements that are null.
RECURSIVE WithoutNullEntries(_)
RECURSIVE KeepNonNull(_, _)
KeepNonNull(entries, j) ==
    IF j > Len(entries) THEN <<>>
    ELSE IF entries[j][2] = VNull THEN KeepNonNull(entries, j + 1)
    ELSE <<<<entries[j][1], WithoutNullEntries(entries[j][2])>>>> \o KeepNonNull(entries, j + 1)
WithoutNullEntries(value) ==
    IF value.t = "map" THEN VMap(KeepNonNull(value.v, 1))
    ELSE IF value.t = "seq"
    THEN VSeq(SelectSeq(value.v, LAMBDA item : item # VNull))
    ELSE value
\* The envelope with the null-valued keys of its fact groups absent.
KeysAbsent(envelope) ==
    ActionEnvelope([k \in DOMAIN envelope.facts |-> WithoutNullEntries(envelope.facts[k])],
                   envelope.verified)
FactsOfClaim(facts, claim_name) == {f \in facts : f.claim_name = claim_name}

\* C12: when a claim's selector selects only YAML null, extract_facts emits
\* no fact for the claim, every unguarded `exists` predicate on it fails and
\* every unguarded `not_exists` predicate on it passes, with the results the
\* envelope without the key gets.
C12_NullIsAbsent ==
    rulesPc \in {"extracted", "executed"} =>
      \A c \in DOMAIN Compiled.claims :
        SelectsOnlyNull(EnvelopeGiven, Compiled, c) =>
          /\ FactsOfClaim(Extracted, c) = {}
          /\ ClaimValues(KeysAbsent(EnvelopeGiven), Compiled.claims[c]) = <<>>
          /\ \A k \in 1..Len(runs), i \in 1..Len(Compiled.predicates) :
                LET pred == Compiled.predicates[i]
                    recorded == runs[k].predicate_results[i]
                    absent == execute_rules(Compiled,
                                  extract_facts(KeysAbsent(EnvelopeGiven), Compiled))
                IN  (pred.claim_name = c /\ ~IsSome(pred.when)) =>
                      /\ pred.rule = "exists" => ~recorded.passed
                      /\ pred.rule = "not_exists" => recorded.passed
                      /\ pred.rule \in {"exists", "not_exists"} =>
                            \A a \in absent : SameVerdict(recorded, a.predicate_results[i])
\* A run over a claim that selects only null, with an `exists` predicate that
\* failed and a `not_exists` predicate that passed.
C12_ExistsFailedOnNull ==
    /\ rulesPc = "executed"
    /\ \E c \in DOMAIN Compiled.claims :
          /\ SelectsOnlyNull(EnvelopeGiven, Compiled, c)
          /\ \E i, j \in 1..Len(Compiled.predicates) :
                /\ Compiled.predicates[i].claim_name = c
                /\ Compiled.predicates[i].rule = "exists"
                /\ ~IsSome(Compiled.predicates[i].when)
                /\ ~runs[1].predicate_results[i].passed
                /\ Compiled.predicates[j].claim_name = c
                /\ Compiled.predicates[j].rule = "not_exists"
                /\ runs[1].predicate_results[j].passed

\* The selector without a leading `facts.`, and the rulespec with every
\* selector so shortened.
StripFactsPrefix(selector) ==
    IF IsPrefix(FactsPrefix, selector)
    THEN SubSeq(selector, Len(FactsPrefix) + 1, Len(selector)) ELSE selector
AllPrefixed(rulespec) ==
    \A i \in 1..Len(rulespec.claims) : IsPrefix(FactsPrefix, rulespec.claims[i].selector)
Unprefixed(rulespec) ==
    Rulespec([i \in 1..Len(rulespec.claims) |->
                 Claim(rulespec.claims[i].name, StripFactsPrefix(rulespec.claims[i].selector))],
             rulespec.predicates)
FactsWithoutPrefix ==
    extract_facts(EnvelopeGiven, compile_rulespec(Unprefixed(RulespecGiven)))
\* The shortened selector is a selector as written (no blank at its ends)
\* that does not start with the field `facts` again.
PlainPath(selector) ==
    /\ Trim(selector) = selector
    /\ SelectorParse(selector).ok
    /\ SelectorParse(selector).segments[1] # Field(<<"facts">>)
PrefixOverPlainPaths(rulespec) ==
    /\ AllPrefixed(rulespec)
    /\ \A i \in 1..Len(rulespec.claims) :
          PlainPath(StripFactsPrefix(rulespec.claims[i].selector))

\* C13 as stated: for every envelope and every rulespec whose selectors all
\* begin with `facts.`, extract_facts gives the fact set it gives for the
\* rulespec with the prefix removed from every selector.
C13_PrefixRemovableEverywhere ==
    (rulesPc \in {"extracted", "executed"} /\ AllPrefixed(RulespecGiven)
        /\ compile_rulespec(Unprefixed(RulespecGiven)).ok)
      => Extracted = FactsWithoutPrefix
\* C13 (amended): for every envelope whose facts map has no top-level key
\* named `facts`, and every rulespec whose selectors all are `facts.` followed
\* by a selector that does not itself start with the field `facts`,
\* extract_facts gives the fact set it gives for the rulespec with the prefix
\* removed from every selector.
C13_PrefixRemovable ==
    (rulesPc \in {"extracted", "executed"} /\ PrefixOverPlainPaths(RulespecGiven)
        /\ <<"facts">> \notin DOMAIN EnvelopeGiven.facts)
      => Extracted = FactsWithoutPrefix
\* Facts were extracted through prefixed selectors from an envelope without
\* a `facts` key.
C13_ExtractedThroughPrefix ==
    /\ rulesPc = "extracted"
    /\ PrefixOverPlainPaths(RulespecGiven)
    /\ <<"facts">> \notin DOMAIN EnvelopeGiven.facts
    /\ \E f \in Extracted : f.claim_name = <<"caps">>
    /\ \E f \in Extracted : f.claim_name = <<"file">>

\* C14: two evaluations of the same compiled rulespec against the same fact
\* set give the same pass/fail verdict for every predicate.
C14_SameVerdictEveryRun ==
    Len(runs) >= 2 =>
      \A k \in 2..Len(runs), i \in 1..Len(runs[1].predicate_results) :
        runs[k].predicate_results[i].passed = runs[1].predicate_results[i].passed
\* Two execute_rules calls on the same arguments disagree on a predicate
\* that reads a "first" value.
C14_TwoRunsDisagree ==
    /\ Len(runs) = 2
    /\ \E i \in 1..Len(Compiled.predicates) :
          /\ Compiled.predicates[i].rule
                 \in {"greater_than", "less_than", "min_length", "max_length"}
          /\ runs[1].predicate_results[i].passed # runs[2].predicate_results[i].passed

-----------------------------------------------------------------------------
(***************************************************************************)
(* The Plan (spec section 4.12) and the interactive loop's plan mode       *)
(* (g3-cli/src/interactive.rs).  The plan tools themselves are declared in *)
(* g3-core/src/tool_definitions.rs; their behaviour is taken from the      *)
(* specification of the Plan.                                              *)
(***************************************************************************)
ItemStates == {"todo", "doing", "done", "blocked"}
MaxRevision == 3

\* items : the state of each item, by item id.
Plan(revision, approved_revision, items) ==
    [revision |-> revision, approved_revision |-> approved_revision, items |-> items]
\* The item lists a plan_write call may carry.
ItemMaps == UNION {[ids -> ItemStates] : ids \in (SUBSET ItemIds) \ {{}}}

\* todo -> doing -> done, todo/doing -> blocked; an unchanged state is no
\* transition.
ValidTransition(from, to) ==
    \/ from = to
    \/ from = "todo" /\ to \in {"doing", "blocked"}
    \/ from = "doing" /\ to \in {"done", "blocked"}

PlanAccepted(p) == [ok |-> TRUE, plan |-> Some(p)]
PlanRejected(current) == [ok |-> FALSE, plan |-> current]

\* plan_write accepting the removal of items after approval.
plan_write_RemovalAllowed(current, items) ==
    IF ~IsSome(current) THEN PlanAccepted(Plan(1, None, items))
    ELSE LET cur == Unwrap(current)
         IN  IF \E id \in (DOMAIN cur.items) \cap (DOMAIN items) :
                    ~ValidTransition(cur.items[id], items[id])
             THEN PlanRejected(current)
             ELSE PlanAccepted(Plan(cur.revision + 1, cur.approved_revision, items))

\* plan_write accepting every change of state.
plan_write_AnyTransition(current, items) ==
    IF ~IsSome(current) THEN PlanAccepted(Plan(1, None, items))
    ELSE LET cur == Unwrap(current)
         IN  IF IsSome(cur.approved_revision)
                /\ \E id \in DOMAIN cur.items : id \notin DOMAIN items
             THEN PlanRejected(current)
             ELSE PlanAccepted(Plan(cur.revision + 1, cur.approved_revision, items))

\* plan_write: the first write creates revision 1; a later write is rejected
\* when it removes an item of an approved plan or moves an item along no
\* arrow of the transition relation, and advances the revision otherwise.
plan_write(current, items) ==
    IF ~IsSome(current) THEN PlanAccepted(Plan(1, None, items))
    ELSE LET cur == Unwrap(current)
         IN  IF IsSome(cur.approved_revision)
                /\ \E id \in DOMAIN cur.items : id \notin DOMAIN items
             THEN PlanRejected(current)
             ELSE IF \E id \in (DOMAIN cur.items) \cap (DOMAIN items) :
                        ~ValidTransition(cur.items[id], items[id])
             THEN PlanRejected(current)
             ELSE PlanAccepted(Plan(cur.revision + 1, cur.approved_revision, items))

\* plan_approve: approved_revision becomes the current revision.
plan_approve(current) ==
    IF ~IsSome(current) THEN PlanRejected(current)
    ELSE LET cur == Unwrap(current)
         IN  PlanAccepted(Plan(cur.revision, Some(cur.revision), cur.items))

\* Agent::is_plan_terminal: every item is done, or all non-done items are
\* blocked; FALSE without a plan.
is_plan_terminal(current) ==
    /\ IsSome(current)
    /\ LET items == Unwrap(current).items
       IN  \/ \A id \in DOMAIN items : items[id] = "done"
           \/ \A id \in DOMAIN items : items[id] # "done" => items[id] = "blocked"

\* check_and_exit_plan_mode_if_terminal leaving plan mode whatever the plan.
check_and_exit_plan_mode_if_terminal_AnyPlan(flag, current) ==
    IF flag THEN [in_plan_mode |-> FALSE, set_plan_mode |-> Some(FALSE), ret |-> TRUE]
    ELSE [in_plan_mode |-> flag, set_plan_mode |-> None, ret |-> FALSE]

\* check_and_exit_plan_mode_if_terminal clearing the loop's flag only.
check_and_exit_plan_mode_if_terminal_CliOnly(flag, current) ==
    IF flag /\ is_plan_terminal(current)
    THEN [in_plan_mode |-> FALSE, set_plan_mode |-> None, ret |-> TRUE]
    ELSE [in_plan_mode |-> flag, set_plan_mode |-> None, ret |-> FALSE]

\* check_and_exit_plan_mode_if_terminal(agent, &mut in_plan_mode, output):
\* the loop's flag after the call, the argument of agent.set_plan_mode when it
\* was called, and the value returned.
check_and_exit_plan_mode_if_terminal(flag, current) ==
    IF flag /\ is_plan_terminal(current)
    THEN [in_plan_mode |-> FALSE, set_plan_mode |-> Some(FALSE), ret |-> TRUE]
    ELSE [in_plan_mode |-> flag, set_plan_mode |-> None, ret |-> FALSE]

PlanOp(op, ok, items) == [op |-> op, ok |-> ok, items |-> items, mode |-> in_plan_mode]

\* The states an item went through, after a plan with these items was
\* accepted: a state other than the last one recorded is appended.
Walked(trail, items) ==
    [id \in ItemIds |->
        IF id \notin DOMAIN items THEN trail[id]
        ELSE IF trail[id] # <<>> /\ trail[id][Len(trail[id])] = items[id] THEN trail[id]
        ELSE Append(trail[id], items[id])]
\* The same record, started again for an item the accepted plan lacks.
Stayed(trail, items) ==
    [id \in ItemIds |-> IF id \in DOMAIN items THEN Walked(trail, items)[id] ELSE <<>>]

InitPlan ==
    /\ ToolIdle
    /\ ToolsetsIdle
    /\ RulesIdle
    /\ PipelineIdle
    /\ plan = None
    /\ in_plan_mode \in BOOLEAN
    /\ agent_plan_mode = in_plan_mode
    /\ planOp = NoPlanOp
    /\ approvedItems = {}
    /\ itemTrail = NoTrail
    /\ itemStay = NoTrail

\* The agent calls plan_write.
PlanWrite ==
    /\ IsSome(plan) => Unwrap(plan).revision < MaxRevision
    /\ \E items \in ItemMaps :
          LET out == plan_write(plan, items)
          IN  /\ plan' = out.plan
              /\ planOp' = PlanOp("plan_write", out.ok, Some(items))
              /\ itemTrail' = IF out.ok THEN Walked(itemTrail, items) ELSE itemTrail
              /\ itemStay' = IF out.ok THEN Stayed(itemStay, items) ELSE itemStay
    /\ UNCHANGED <<in_plan_mode, agent_plan_mode, approvedItems, OutsidePlan>>

\* The user calls plan_approve.
PlanApprove ==
    LET out == plan_approve(plan)
    IN  /\ plan' = out.plan
        /\ planOp' = PlanOp("plan_approve", out.ok, None)
        /\ approvedItems' = IF out.ok THEN DOMAIN Unwrap(plan).items ELSE approvedItems
        /\ UNCHANGED <<in_plan_mode, agent_plan_mode, itemTrail, itemStay, OutsidePlan>>

\* The interactive loop, after executing a user input.
CheckAndExit ==
    LET out == check_and_exit_plan_mode_if_terminal(in_plan_mode, plan)
    IN  /\ in_plan_mode' = out.in_plan_mode
        /\ agent_plan_mode' = IF IsSome(out.set_plan_mode) THEN Unwrap(out.set_plan_mode)
                               ELSE agent_plan_mode
        /\ planOp' = PlanOp("check", out.ret, None)
        /\ UNCHANGED <<plan, approvedItems, itemTrail, itemStay, OutsidePlan>>

\* CommandResult::EnterPlanMode
EnterPlanMode ==
    /\ in_plan_mode' = TRUE
    /\ agent_plan_mode' = TRUE
    /\ planOp' = PlanOp("enter", TRUE, None)
    /\ UNCHANGED <<plan, approvedItems, itemTrail, itemStay, OutsidePlan>>

\* CTRL-D in plan mode
EofInPlanMode ==
    /\ in_plan_mode
    /\ in_plan_mode' = FALSE
    /\ agent_plan_mode' = FALSE
    /\ planOp' = PlanOp("eof", TRUE, None)
    /\ UNCHANGED <<plan, approvedItems, itemTrail, itemStay, OutsidePlan>>

NextPlan ==
    \/ PlanWrite
    \/ PlanApprove
    \/ CheckAndExit
    \/ EnterPlanMode
    \/ EofInPlanMode

SpecPlan == InitPlan /\ [][NextPlan]_vars

-----------------------------------------------------------------------------
(***************************************************************************)
(* Properties of the Plan                                                  *)
(***************************************************************************)
PlanItems == Unwrap(plan).items
Approved == IsSome(plan) /\ IsSome(Unwrap(plan).approved_revision)

\* C15: once plan_approve has set approved_revision, every item present at
\* the approved revision is in every later plan, and a plan_write whose
\* items lack one of them is rejected.
C15_ApprovedItemsStay ==
    /\ Approved => approvedItems \subseteq DOMAIN PlanItems
    /\ (planOp.op = "plan_write"
          /\ \E id \in approvedItems : id \notin DOMAIN Unwrap(planOp.items))
        => ~planOp.ok
\* After approval, one write that lacked an approved item was rejected
\* while the plan holds an approved item moved to blocked.
C15_RemovalRejected ==
    /\ Approved
    /\ Unwrap(plan).revision > Unwrap(Unwrap(plan).approved_revision)
    /\ planOp.op = "plan_write" /\ ~planOp.ok
    /\ \E id \in approvedItems : id \notin DOMAIN Unwrap(planOp.items)
    /\ \E id \in approvedItems : PlanItems[id] = "blocked"

\* C16: a terminality check made in plan mode on a plan leaves plan mode
\* (returns true) exactly when every item is done or blocked, and stays
\* (returns false) when some item is todo or doing.
C16_TerminalIffDoneOrBlocked ==
    (planOp.op = "check" /\ planOp.mode /\ IsSome(plan)) =>
      /\ planOp.ok <=> \A id \in DOMAIN PlanItems : PlanItems[id] \in {"done", "blocked"}
      /\ planOp.ok <=> ~in_plan_mode
      /\ (\E id \in DOMAIN PlanItems : PlanItems[id] \in {"todo", "doing"}) => in_plan_mode
\* A check left plan mode on a plan with one item done and one blocked.
C16_ExitedOnDoneAndBlocked ==
    /\ planOp.op = "check" /\ planOp.mode /\ planOp.ok
    /\ IsSome(plan)
    /\ \E id \in DOMAIN PlanItems : PlanItems[id] = "done"
    /\ \E id \in DOMAIN PlanItems : PlanItems[id] = "blocked"
    /\ ~in_plan_mode

\* The successive states of a trail follow the arrows todo -> doing,
\* doing -> done, todo -> blocked and doing -> blocked, so that done and
\* blocked are last.
AlongArrows(trail) ==
    \A i \in 1..(Len(trail) - 1) :
        /\ trail[i] # trail[i + 1]
        /\ ValidTransition(trail[i], trail[i + 1])
\* This step is a plan_write call with these items.
WriteOf(items) ==
    /\ planOp'.op = "plan_write"
    /\ planOp'.items = Some(items)
\* The write asks an item of this record for a state its last state has no
\* arrow to.
OffArrow(trail, items) ==
    \E id \in DOMAIN items :
        /\ trail[id] # <<>>
        /\ ~ValidTransition(trail[id][Len(trail[id])], items[id])

C17_DoneItemBackAsTodo ==
    /\ IsSome(plan)
    /\ \E id \in DOMAIN PlanItems :
          /\ itemTrail[id] = <<"done", "todo">>
          /\ itemStay[id] = <<"todo">>
          /\ PlanItems[id] = "todo"

-----------------------------------------------------------------------------
(***************************************************************************)
(* The SDLC pipeline state (studio/src/sdlc.rs)                            *)
(*                                                                         *)
(* Utc::now() is the one time stamp Now; the run id is left out.           *)
(***************************************************************************)
PIPELINE_STAGES ==
    <<"euler", "breaker", "hopper", "fowler", "carmack", "lamport", "huffman">>
MaxAttempts == 3
MaxOffPath == 2

\* StageStatus
Pending == [k |-> "pending"]
Running == [k |-> "running"]
Complete(duration_secs, commits_processed) ==
    [k |-> "complete", duration_secs |-> duration_secs,
     commits_processed |-> commits_processed]
Failed(error, attempts) == [k |-> "failed", error |-> error, attempts |-> attempts]
Skipped(reason) == [k |-> "skipped", reason |-> reason]

Now == "now"
StageState(name, status, started_at, completed_at, last_commit) ==
    [name |-> name, status |-> status, started_at |-> started_at,
     completed_at |-> completed_at, last_commit |-> last_commit]
\* StageState::new
StageStateNew(name) == StageState(name, Pending, None, None, None)

\* PipelineState::new; current_stage is 0-based as in the source, stages[i + 1]
\* is the state of stage i.
PipelineStateNew(commits_per_run) ==
    [completed_at |-> None,
     current_stage |-> 0,
     stages |-> [i \in 1..Len(PIPELINE_STAGES) |-> StageStateNew(PIPELINE_STAGES[i])],
     commit_cursor |-> None,
     commits_per_run |-> commits_per_run,
     session_id |-> None]

\* self.stages.get_mut(self.current_stage) is Some
HasCurrent(self) == self.current_stage < Len(self.stages)
Current(self) == self.stages[self.current_stage + 1]
WithCurrent(self, stage) == [self EXCEPT !.stages[self.current_stage + 1] = stage]

is_complete(self) ==
    \A i \in 1..Len(self.stages) : self.stages[i].status.k \in {"complete", "skipped"}

mark_running(self) ==
    IF HasCurrent(self)
    THEN WithCurrent(self, [Current(self) EXCEPT !.status = Running, !.started_at = Some(Now)])
    ELSE self

\* Variant: the tail advances past the last stage as well.
Advance_Unbounded(self) == [self EXCEPT !.current_stage = self.current_stage + 1]

\* The tail of mark_complete and of mark_skipped: advance, or finish.
Advance(self) ==
    IF self.current_stage < Len(PIPELINE_STAGES) - 1
    THEN [self EXCEPT !.current_stage = self.current_stage + 1]
    ELSE [self EXCEPT !.completed_at = Some(Now)]

\* mark_complete that advances past the last stage as well.
mark_complete_AlwaysAdvances(self, duration_secs, commits_processed, commit_hash) ==
    LET marked ==
            IF HasCurrent(self)
            THEN WithCurrent(self, [Current(self) EXCEPT
                     !.status = Complete(duration_secs, commits_processed),
                     !.completed_at = Some(Now),
                     !.last_commit = Some(commit_hash)])
            ELSE self
    IN  [marked EXCEPT !.current_stage = marked.current_stage + 1,
                       !.commit_cursor = Some(commit_hash)]

mark_complete(self, duration_secs, commits_processed, commit_hash) ==
    LET marked ==
            IF HasCurrent(self)
            THEN WithCurrent(self, [Current(self) EXCEPT
                     !.status = Complete(duration_secs, commits_processed),
                     !.completed_at = Some(Now),
                     !.last_commit = Some(commit_hash)])
            ELSE self
    IN  [Advance(marked) EXCEPT !.commit_cursor = Some(commit_hash)]

mark_failed(self, error) ==
    IF HasCurrent(self)
    THEN LET attempts == IF Current(self).status.k = "failed"
                         THEN Current(self).status.attempts + 1 ELSE 1
         IN  WithCurrent(self, [Current(self) EXCEPT !.status = Failed(error, attempts)])
    ELSE self

\* Variant: mark_skipped advances and leaves the stage as it was.
mark_skipped_AdvanceOnly(self, reason) == Advance(self)

mark_skipped(self, reason) ==
    LET marked ==
            IF HasCurrent(self)
            THEN WithCurrent(self, [Current(self) EXCEPT
                     !.status = Skipped(reason), !.completed_at = Some(Now)])
            ELSE self
    IN  Advance(marked)

\* retry_stage: [ok, state]; Err leaves the state as it is.
retry_stage(self) ==
    IF HasCurrent(self) /\ Current(self).status.k = "failed"
    THEN [ok |-> TRUE,
          state |-> WithCurrent(self, [Current(self) EXCEPT
                        !.status = Pending, !.started_at = None])]
    ELSE [ok |-> FALSE, state |-> self]

\* find_resume_point: the 0-based index of the first stage that is pending,
\* running or failed; stages.len() when there is none.
RECURSIVE FindResumeFrom(_, _)
FindResumeFrom(self, i) ==
    IF i >= Len(self.stages) THEN Len(self.stages)
    ELSE IF self.stages[i + 1].status.k \in {"pending", "running", "failed"} THEN i
    ELSE FindResumeFrom(self, i + 1)
find_resume_point(self) == FindResumeFrom(self, 0)

\* resume that leaves a running stage as it found it.
resume_KeepsRunning(self) == [self EXCEPT !.current_stage = find_resume_point(self)]

resume(self) ==
    LET moved == [self EXCEPT !.current_stage = find_resume_point(self)]
    IN  IF HasCurrent(moved) /\ Current(moved).status.k = "running"
        THEN WithCurrent(moved, [Current(moved) EXCEPT
                 !.status = Pending, !.started_at = None])
        ELSE moved

\* The arguments of the calls.  HEAD moves forward only: once "def" was
\* given as the commit hash, "abc" is given no more.
CommitHashes == {"abc", "def"}
HeadHashes(self) == IF self.commit_cursor = Some("def") THEN {"def"} ELSE CommitHashes
\* The stages that were skipped, or completed without having been started.
OffPath(self) ==
    {i \in 1..Len(self.stages) :
        \/ self.stages[i].status.k = "skipped"
        \/ self.stages[i].status.k = "complete" /\ self.stages[i].started_at = None}

State == Unwrap(pipeline)
Stage == State.current_stage
\* cleanPairs after one more call: the count goes on only along
\* mark_running, mark_complete, mark_running, ... and ends after one pair
\* per stage.
PairsAfter(op) ==
    IF ~IsSome(cleanPairs) THEN None
    ELSE LET c == Unwrap(cleanPairs)
         IN  IF op = "mark_running" /\ ~c.running /\ c.done < Len(PIPELINE_STAGES)
             THEN Some([done |-> c.done, running |-> TRUE])
             ELSE IF op = "mark_complete" /\ c.running
             THEN Some([done |-> c.done + 1, running |-> FALSE])
             ELSE None

InitPipeline ==
    /\ ToolIdle
    /\ ToolsetsIdle
    /\ RulesIdle
    /\ PlanIdle
    /\ pipeline = Some(PipelineStateNew(10))
    /\ pipeOp = PipeOp("new", TRUE, 0, None, None, FALSE)
    /\ retryOf = None
    /\ cleanPairs = Some([done |-> 0, running |-> FALSE])

MarkRunning ==
    /\ pipeline' = Some(mark_running(State))
    /\ pipeOp' = PipeOp("mark_running", TRUE, Stage, None, None, FALSE)
    /\ cleanPairs' = PairsAfter("mark_running")
    /\ UNCHANGED <<retryOf, OutsidePipeline>>

MarkComplete ==
    /\ (HasCurrent(State) /\ Current(State).started_at = None)
          => Cardinality(OffPath(State)) < MaxOffPath
    /\ \E commit_hash \in HeadHashes(State) :
          /\ pipeline' = Some(mark_complete(State, 60, 5, commit_hash))
          /\ pipeOp' = PipeOp("mark_complete", TRUE, Stage, Some(commit_hash), None, FALSE)
    /\ cleanPairs' = PairsAfter("mark_complete")
    /\ retryOf' = None
    /\ UNCHANGED OutsidePipeline

MarkFailed ==
    /\ (HasCurrent(State) /\ Current(State).status.k = "failed")
          => Current(State).status.attempts < MaxAttempts
    /\ pipeline' = Some(mark_failed(State, "error"))
    /\ pipeOp' = PipeOp("mark_failed", TRUE, Stage, None, retryOf, FALSE)
    /\ cleanPairs' = PairsAfter("mark_failed")
    /\ retryOf' = None
    /\ UNCHANGED OutsidePipeline

MarkSkipped ==
    /\ Cardinality(OffPath(State)) < MaxOffPath
    /\ pipeline' = Some(mark_skipped(State, "no new commits"))
    /\ pipeOp' = PipeOp("mark_skipped", TRUE, Stage, None, None, FALSE)
    /\ cleanPairs' = PairsAfter("mark_skipped")
    /\ retryOf' = None
    /\ UNCHANGED OutsidePipeline

RetryStage ==
    LET out == retry_stage(State)
    IN  /\ pipeline' = Some(out.state)
        /\ pipeOp' = PipeOp("retry_stage", out.ok, Stage, None, None, FALSE)
        /\ retryOf' = IF out.ok THEN Some(Current(State).status.attempts) ELSE retryOf
        /\ cleanPairs' = PairsAfter("retry_stage")
        /\ UNCHANGED OutsidePipeline

\* The state is loaded after a crash and resumed.
Resume ==
    /\ pipeline' = Some(resume(State))
    /\ pipeOp' = PipeOp("resume", TRUE, Stage, None, None,
                        \E i \in 1..Len(State.stages) :
                            /\ State.stages[i].status.k = "running"
                            /\ \A j \in 1..(i - 1) :
                                  State.stages[j].status.k \in {"complete", "skipped"})
    /\ cleanPairs' = PairsAfter("resume")
    /\ UNCHANGED <<retryOf, OutsidePipeline>>

NextPipeline ==
    \/ MarkRunning
    \/ MarkComplete
    \/ MarkFailed
    \/ MarkSkipped
    \/ RetryStage
    \/ Resume

SpecPipeline == InitPipeline /\ [][NextPipeline]_vars

-----------------------------------------------------------------------------
(***************************************************************************)
(* Properties of the SDLC pipeline state                                   *)
(***************************************************************************)
\* The 1-based positions of the stages that are neither complete nor skipped.
Incomplete(self) ==
    {i \in 1..Len(self.stages) : self.stages[i].status.k \notin {"complete", "skipped"}}

\* C18: resume sets current_stage to the first stage that is neither
\* complete nor skipped; a running stage found there becomes pending with
\* started_at cleared; the status of every other stage is left as it was.
C18_ResumePoint ==
    [][pipeOp'.op = "resume" =>
          LET old == Unwrap(pipeline)
              new == Unwrap(pipeline')
          IN  Incomplete(old) # {} =>
                LET first == CHOOSE i \in Incomplete(old) : \A j \in Incomplete(old) : i <= j
                IN  /\ new.current_stage = first - 1
                    /\ IF old.stages[first].status.k = "running"
                       THEN /\ new.stages[first].status.k = "pending"
                            /\ new.stages[first].started_at = None
                       ELSE new.stages[first] = old.stages[first]
                    /\ \A i \in (1..Len(old.stages)) \ {first} :
                          new.stages[i].status = old.stages[i].status
    ]_vars
\* resume found the third stage running after two complete ones and reset it.
C18_RunningStageReset ==
    /\ pipeOp.op = "resume" /\ pipeOp.found_running
    /\ State.current_stage = 2
    /\ State.stages[1].status.k = "complete"
    /\ State.stages[2].status.k = "complete"
    /\ Current(State).status.k = "pending"
    /\ Current(State).started_at = None

\* C19: a mark_failed that follows a retry_stage of the stage at attempts = n
\* records attempts = n + 1.
C19_RetryKeepsAttempts ==
    (pipeOp.op = "mark_failed" /\ IsSome(pipeOp.retried)) =>
      /\ Current(State).status.k = "failed"
      /\ Current(State).status.attempts = Unwrap(pipeOp.retried) + 1
\* A stage failed twice, was retried, failed again and stands at attempts = 1.
C19_CountStartsOver ==
    /\ pipeOp.op = "mark_failed"
    /\ pipeOp.retried = Some(2)
    /\ Current(State).status.k = "failed"
    /\ Current(State).status.attempts = 1

\* C20: mark_complete leaves the stage that was current complete and
\* commit_cursor on the given hash; it moves current_stage one further when
\* the stage was not the last, and sets completed_at with current_stage left
\* on the last stage when it was.  After seven mark_running/mark_complete
\* pairs from a new state, is_complete holds.
C20_MarkCompleteAdvances ==
    /\ (pipeOp.op = "mark_complete" /\ pipeOp.stage < Len(PIPELINE_STAGES)) =>
          /\ State.stages[pipeOp.stage + 1].status.k = "complete"
          /\ State.commit_cursor = pipeOp.hash
          /\ pipeOp.stage < 6 => State.current_stage = pipeOp.stage + 1
          /\ pipeOp.stage = 6 =>
                State.current_stage = 6 /\ IsSome(State.completed_at)
    /\ (IsSome(cleanPairs) /\ Unwrap(cleanPairs).done = 7) => is_complete(State)
\* The seventh pair completed the last stage on commit "def".
C20_SevenPairsComplete ==
    /\ IsSome(cleanPairs) /\ Unwrap(cleanPairs).done = 7
    /\ pipeOp.op = "mark_complete" /\ pipeOp.stage = 6
    /\ State.commit_cursor = Some("def")
    /\ State.current_stage = 6
    /\ IsSome(State.completed_at)
    /\ is_complete(State)

-----------------------------------------------------------------------------
(***************************************************************************)
(* Frame properties of the envelope tool                                   *)
(***************************************************************************)
\* A write_envelope call that ended without an all-passed summary: it was
\* turned down, verification was skipped, the rulespec did not compile, or a
\* predicate failed.
NotPassedNow == lastOp = "write_envelope" /\ ret.note.kind # "summary_ok"

\* C21: the verification key is created lazily and never rotated.  A
\* write_envelope call where verification is skipped, fails to compile or has a
\* failing predicate neither creates nor modifies the key file, and once a
\* 32-byte key file exists no write_envelope or verify_token call changes its
\* content.
C21_KeyLazyNeverRotated ==
    [][/\ NotPassedNow' => keyFile' = keyFile
       /\ (lastOp' \in {"write_envelope", "verify_token"} /\ KeyUsable)
             => keyFile' = keyFile
    ]_vars

\* A call with a failing predicate came after a stamp had created the key, and
\* the key file still holds that key.
C21_FailedCallKeptKey ==
    /\ NotPassedNow
    /\ ret.note.kind = "summary_failed"
    /\ IsSome(stampSnap)
    /\ KeyUsable
    /\ keyFile = Unwrap(stampSnap).key

-----------------------------------------------------------------------------
(***************************************************************************)
(* The rule pipeline against the direct evaluator                          *)
(***************************************************************************)
\* The values the verification path selects for the claim of predicate i.
SelectedFor(i) ==
    ClaimValues(EnvelopeGiven, Compiled.claims[RulespecGiven.predicates[i].claim])
ExistenceRules == {"exists", "not_exists"}

\* C22: in the verification path (extract_facts, then execute_rules) an
\* unguarded `exists` passes exactly when the claim's selector selects at least
\* one non-null value and `not_exists` exactly when it selects none, the
\* verdict evaluate_predicate gives on the selected values; an empty sequence
\* and a sequence of nulls count as existing.
C22_ExistsAsDirectEvaluator ==
    rulesPc = "executed" =>
      \A k \in 1..Len(runs), i \in 1..Len(RulespecGiven.predicates) :
        LET p == RulespecGiven.predicates[i]
        IN  (~IsSome(p.when) /\ p.rule \in ExistenceRules) =>
              runs[k].predicate_results[i].passed
                 = evaluate_predicate(p, SelectedFor(i)).passed

\* A run where `exists` failed on a claim that selects an empty sequence, which
\* evaluate_predicate takes as existing.
C22_EmptySequenceMissing ==
    /\ rulesPc = "executed"
    /\ \E i \in 1..Len(RulespecGiven.predicates) :
          LET p == RulespecGiven.predicates[i]
          IN  /\ ~IsSome(p.when) /\ p.rule = "exists"
              /\ SelectedFor(i) = <<VSeq(<<>>)>>
              /\ ~runs[1].predicate_results[i].passed
              /\ evaluate_predicate(p, SelectedFor(i)).passed

DirectResults == Unwrap(directOut).predicate_results
\* The unguarded predicates of the rulespec with one of the rules, by position.
UnguardedWith(rules) ==
    {i \in 1..Len(RulespecGiven.predicates) :
        /\ ~IsSome(RulespecGiven.predicates[i].when)
        /\ RulespecGiven.predicates[i].rule \in rules}
LengthOperand(i) == Unwrap(RulespecGiven.predicates[i].value).v
\* The sequence lengths among the values, in the order of the values.
SequenceLengths(values) ==
    LET seqs == SelectSeq(values, LAMBDA v : v.t = "seq")
    IN  [j \in 1..Len(seqs) |-> Len(seqs[j].v)]

\* C23 as stated: evaluate_predicate passes `min_length n` exactly when some
\* selected value is a sequence with at least n elements, and `max_length n`
\* exactly when some selected value is a sequence with at most n elements.
C23_SomeSequenceDecides ==
    IsSome(directOut) =>
      \A i \in UnguardedWith({"min_length", "max_length"}) :
        LET lengths == SequenceLengths(DirectResults[i].selected_values)
            n == LengthOperand(i)
        IN  DirectResults[i].result.passed
              = IF RulespecGiven.predicates[i].rule = "min_length"
                THEN \E j \in 1..Len(lengths) : lengths[j] >= n
                ELSE \E j \in 1..Len(lengths) : lengths[j] <= n

\* C23: evaluate_predicate passes `min_length n` exactly when the first
\* selected value that is a sequence has at least n elements, and
\* `max_length n` exactly when that first sequence has at most n elements;
\* without a sequence among the selected values both fail.
C23_FirstSequenceDecides ==
    IsSome(directOut) =>
      \A i \in UnguardedWith({"min_length", "max_length"}) :
        LET lengths == SequenceLengths(DirectResults[i].selected_values)
            n == LengthOperand(i)
        IN  DirectResults[i].result.passed
              = /\ lengths # <<>>
                /\ IF RulespecGiven.predicates[i].rule = "min_length"
                   THEN lengths[1] >= n ELSE lengths[1] <= n

\* min_length failed on a short sequence followed by a long enough one, and
\* max_length passed on it.
C23_ShortBeforeLong ==
    /\ IsSome(directOut)
    /\ \E i \in UnguardedWith({"min_length"}) :
          LET lengths == SequenceLengths(DirectResults[i].selected_values)
          IN  /\ Len(lengths) = 2
              /\ lengths[1] < LengthOperand(i) /\ lengths[2] >= LengthOperand(i)
              /\ ~DirectResults[i].result.passed
    /\ \E i \in UnguardedWith({"max_length"}) :
          /\ Len(SequenceLengths(DirectResults[i].selected_values)) = 2
          /\ DirectResults[i].result.passed

\* The strings given as the operand of predicate i, a sequence of strings.
GivenSet(i) ==
    LET operand == Unwrap(RulespecGiven.predicates[i].value).v
    IN  {operand[j].v : j \in 1..Len(operand)}

\* C24: for every set S of strings given as the operand of an unguarded any_of
\* or none_of predicate and every set V of values of its claim, execute_rules
\* tests membership in S itself: any_of passes exactly when some value of V is
\* in S, none_of exactly when none is.
C24_MembershipInGivenSet ==
    rulesPc = "executed" =>
      \A k \in 1..Len(runs), i \in UnguardedWith({"any_of", "none_of"}) :
        LET V == FactLookup(Extracted, RulespecGiven.predicates[i].claim)
        IN  runs[k].predicate_results[i].passed
              = IF RulespecGiven.predicates[i].rule = "any_of"
                THEN V \cap GivenSet(i) # {}
                ELSE V \cap GivenSet(i) = {}

\* any_of with an empty operand passed and none_of with an empty operand
\* failed, on a claim that has the empty string among its values.
C24_EmptySetMatched ==
    /\ rulesPc = "executed"
    /\ \E i \in UnguardedWith({"any_of"}) :
          GivenSet(i) = {} /\ runs[1].predicate_results[i].passed
    /\ \E i \in UnguardedWith({"none_of"}) :
          GivenSet(i) = {} /\ ~runs[1].predicate_results[i].passed

-----------------------------------------------------------------------------
(***************************************************************************)
(* Plan mode in the interactive loop                                       *)
(***************************************************************************)
\* C25: after every executed user input, if the loop is in plan mode and the
\* plan is terminal, plan mode is exited: in_plan_mode is false and the agent
\* was told set_plan_mode(false); when the plan is not terminal or plan mode is
\* off, neither flag changes.  The loop's flag and the agent's flag agree at
\* every prompt.
C25_PlanModeExitedTogether ==
    [][/\ planOp'.op = "check" =>
            IF in_plan_mode /\ is_plan_terminal(plan)
            THEN ~in_plan_mode' /\ ~agent_plan_mode'
            ELSE in_plan_mode' = in_plan_mode /\ agent_plan_mode' = agent_plan_mode
       /\ in_plan_mode' = agent_plan_mode'
    ]_vars

\* The check after a user input found a terminal plan and left plan mode on
\* both sides.
C25_BothFlagsCleared ==
    /\ planOp.op = "check" /\ planOp.ok /\ planOp.mode
    /\ is_plan_terminal(plan)
    /\ ~in_plan_mode /\ ~agent_plan_mode

-----------------------------------------------------------------------------
(***************************************************************************)
(* Invariants of the SDLC pipeline state                                   *)
(***************************************************************************)
Finished == {"complete", "skipped"}
StatusOf(i) == State.stages[i + 1].status
StageIndexes == 0..(Len(PIPELINE_STAGES) - 1)

\* C26: after any sequence of mark_running, mark_complete, mark_failed,
\* mark_skipped, retry_stage and resume on a new PipelineState, every stage
\* below current_stage is complete or skipped and every stage above it is
\* pending.
C26_StagesAroundCurrent ==
    \A i \in StageIndexes :
      /\ i < Stage => StatusOf(i).k \in Finished
      /\ i > Stage => StatusOf(i) = Pending

\* The third stage failed after the first was completed and the second
\* skipped.
C26_FailedAfterCompleteAndSkipped ==
    /\ Stage = 2
    /\ StatusOf(0).k = "complete" /\ StatusOf(1).k = "skipped"
    /\ StatusOf(2).k = "failed"
    /\ pipeOp.op = "mark_failed"

\* C27 as stated: after any such sequence current_stage is one of the seven
\* stage indexes, so that current_stage_def returns a stage.
C27_CurrentStageExists == Stage \in StageIndexes

\* C27: after any such sequence current_stage is at most 7; it is 7, where
\* current_stage_def returns None and the mark_ methods find no stage, only
\* when every stage is complete or skipped, and below 7 the current stage
\* exists.
C27_CurrentStageAtMostLen ==
    /\ Stage \in 0..Len(PIPELINE_STAGES)
    /\ Stage = Len(PIPELINE_STAGES) => is_complete(State)
    /\ HasCurrent(State) <=> Stage \in StageIndexes

\* resume on a finished pipeline left current_stage at 7.
C27_ResumedPastLastStage ==
    /\ pipeOp.op = "resume"
    /\ Stage = Len(PIPELINE_STAGES)
    /\ ~HasCurrent(State)

\* C28: after any such sequence completed_at is set exactly when is_complete()
\* holds, and a stage that has become complete never changes status again.
C28_CompletedAtIffComplete ==
    [][/\ IsSome(State.completed_at)' <=> is_complete(State)'
       /\ \A i \in StageIndexes :
             StatusOf(i).k = "complete" => StatusOf(i)' = StatusOf(i)
    ]_vars

\* The last stage failed after the pipeline had been completed: completed_at
\* is set on a pipeline that is not complete.
C28_FailedAfterCompletion ==
    /\ pipeOp.op = "mark_failed"
    /\ IsSome(State.completed_at)
    /\ StatusOf(Len(PIPELINE_STAGES) - 1).k = "failed"
    /\ ~is_complete(State)

-----------------------------------------------------------------------------
(***************************************************************************)
(* What stamping leaves of the envelope                                    *)
(***************************************************************************)
\* The envelope the agent supplied in the last call, as parsed.
SuppliedNow == EnvelopeFromStr(Unwrap(lastInput.facts)).envelope

\* C29: stamping changes only `verified`.  The envelope.yaml rewritten by
\* stamp_envelope has exactly the facts map of the envelope read and evaluated
\* in that verify_envelope call, and differs from the file of the call's first
\* write in `verified` alone; a write_envelope call that does not stamp leaves
\* on disk exactly the facts the agent supplied, in the file it wrote first.
C29_StampChangesOnlyVerified ==
    WroteNow =>
      /\ EnvelopeParses
      /\ EnvelopeOnDisk.facts = SuppliedNow.facts
      /\ StampedNow =>
            /\ EnvelopeOnDisk.facts = Unwrap(lastWrite.evaluated).facts
            /\ envFile = Some([Unwrap(lastWrite.first_write) EXCEPT
                                  !.verified = Some(MintedNow)])
      /\ ~StampedNow => envFile = lastWrite.first_write

\* A call was stamped: the file holds the token and the supplied facts, and
\* the first write held no token.
C29_StampedSuppliedFacts ==
    /\ StampedNow
    /\ EnvelopeOnDisk.verified = Some(MintedNow)
    /\ ~IsSome(Unwrap(lastWrite.first_write).verified)
    /\ EnvelopeOnDisk.facts = FactsFull
    /\ SuppliedNow.facts = FactsFull

-----------------------------------------------------------------------------
(***************************************************************************)
(* The load_toolset tool (g3-core/src/toolsets.rs, tools/toolsets.rs)      *)
(*                                                                         *)
(* A returned text is the kind of the answer, the name it shows and the    *)
(* names of the tools it lists.                                            *)
(***************************************************************************)
create_webdriver_tools ==
    <<"webdriver_start", "webdriver_navigate", "webdriver_get_url",
      "webdriver_get_title", "webdriver_find_element", "webdriver_find_elements",
      "webdriver_click", "webdriver_send_keys", "webdriver_execute_script",
      "webdriver_get_page_source", "webdriver_screenshot", "webdriver_back",
      "webdriver_forward", "webdriver_refresh", "webdriver_quit">>
create_research_tools == <<"research", "research_status">>

Toolset(name, tools) == [name |-> name, tools |-> tools]
TOOLSET_REGISTRY ==
    <<Toolset(<<"webdriver">>, create_webdriver_tools),
      Toolset(<<"research">>, create_research_tools)>>
list_toolset_names == {TOOLSET_REGISTRY[i].name : i \in 1..Len(TOOLSET_REGISTRY)}

\* get_toolset(name)
get_toolset(name) ==
    IF Trim(name) = <<>> THEN [ok |-> FALSE, toolset |-> None, err |-> "empty"]
    ELSE IF Trim(name) \in list_toolset_names
    THEN [ok |-> TRUE, err |-> "",
          toolset |-> Some(TOOLSET_REGISTRY[CHOOSE i \in 1..Len(TOOLSET_REGISTRY) :
                                              TOOLSET_REGISTRY[i].name = Trim(name)])]
    ELSE [ok |-> FALSE, toolset |-> None, err |-> "unknown"]

ToolsetAnswer(kind, name, tools) == [kind |-> kind, name |-> name, tools |-> tools]

\* execute_load_toolset with args["name"] = arg (None when it is missing or
\* not a string) and ctx.loaded_toolsets = loaded: the text returned and
\* ctx.loaded_toolsets after the call.
execute_load_toolset(arg, loaded) ==
    LET toolset_name == IF IsSome(arg) THEN Unwrap(arg) ELSE <<>>
        found == get_toolset(toolset_name)
    IN  IF ~found.ok
        THEN [ret |-> ToolsetAnswer(found.err, Trim(toolset_name), <<>>),
              loaded_toolsets |-> loaded]
        ELSE IF toolset_name \in loaded
        THEN [ret |-> ToolsetAnswer("already_loaded", toolset_name, <<>>),
              loaded_toolsets |-> loaded]
        ELSE [ret |-> ToolsetAnswer("loaded", toolset_name, Unwrap(found.toolset).tools),
              loaded_toolsets |-> loaded \cup {toolset_name}]

\* The names the agent passes: the registry names plain and with blanks
\* around them, an unknown name, the empty name, blanks only.
Blank == <<" ">>
ToolsetArgs ==
    {None, Some(<<>>), Some(Blank), Some(<<"nonexistent">>),
     Some(<<"webdriver">>), Some(Blank \o <<"webdriver">>),
     Some(Blank \o <<"webdriver">> \o Blank),
     Some(<<"research">>), Some(<<"research">> \o Blank)}

InitToolsets ==
    /\ ToolIdle
    /\ RulesIdle
    /\ PlanIdle
    /\ PipelineIdle
    /\ loaded_toolsets = {}
    /\ toolsetCall = NoToolsetCall
    /\ loadCount = [n \in list_toolset_names |-> 0]

\* The agent calls load_toolset.
LoadToolset ==
    \E arg \in ToolsetArgs :
      LET out == execute_load_toolset(arg, loaded_toolsets)
      IN  /\ loaded_toolsets' = out.loaded_toolsets
          /\ toolsetCall' = [arg |-> arg, kind |-> out.ret.kind, name |-> out.ret.name,
                             tools |-> out.ret.tools]
          /\ loadCount' = IF out.ret.kind = "loaded"
                          THEN [loadCount EXCEPT ![Trim(out.ret.name)] = @ + 1]
                          ELSE loadCount
          /\ UNCHANGED OutsideToolsets

NextToolsets == LoadToolset

SpecToolsets == InitToolsets /\ [][NextToolsets]_vars

-----------------------------------------------------------------------------
(***************************************************************************)
(* Properties of load_toolset                                              *)
(***************************************************************************)
\* The name a call was given, trimmed; a missing name counts as empty.
NamedBy(call) == IF IsSome(call.arg) THEN Trim(Unwrap(call.arg)) ELSE <<>>

\* C30: load_toolset is idempotent per toolset.  Each registry toolset is
\* loaded at most once; every later call naming it, with or without blanks
\* around the name, answers "already loaded" and leaves loaded_toolsets as it
\* was; a call naming an unknown or empty toolset changes nothing.
C30_LoadedAtMostOnce ==
    [][/\ \A n \in list_toolset_names : loadCount'[n] <= 1
       /\ (NamedBy(toolsetCall') \in list_toolset_names
              /\ loadCount[NamedBy(toolsetCall')] >= 1)
             => /\ toolsetCall'.kind = "already_loaded"
                /\ loaded_toolsets' = loaded_toolsets
       /\ NamedBy(toolsetCall') \notin list_toolset_names
             => /\ toolsetCall'.kind \in {"empty", "unknown"}
                /\ loaded_toolsets' = loaded_toolsets
    ]_vars

\* webdriver was loaded, and a later call naming it with a blank in front
\* returned its definitions again.
C30_LoadedTwice ==
    /\ loadCount[<<"webdriver">>] = 2
    /\ toolsetCall.arg = Some(Blank \o <<"webdriver">>)
    /\ toolsetCall.kind = "loaded"
    /\ {<<"webdriver">>, Blank \o <<"webdriver">>} \subseteq loaded_toolsets

=============================================================================
